---- MODULE Spec2Model ----
(***************************************************************************)
(* Model of the retrieval store of the Research-Agent-System repository.   *)
(*                                                                         *)
(* Part 1: S3VectorStore (src/rag/s3_vector_store.py).  Several processes  *)
(* each hold one S3VectorStore instance on the same bucket/prefix.  Every  *)
(* handler is split at its S3 calls (head_object/download_file and         *)
(* upload_file), the only points at which another process can observe or   *)
(* change the bucket.  The local cache files are written and read back     *)
(* inside one handler of one single-threaded process, so an upload sends   *)
(* the in-memory value of its own call and a successful download loads     *)
(* the object as stored.                                                   *)
(*                                                                         *)
(* Part 2: the pure functions of the retrieval and research code           *)
(* (S3VectorStore.search, ResearcherAgent._are_papers_similar,             *)
(* _merge_paper_info, _deduplicate_papers and the ranking step, the        *)
(* EmbeddingService, TextProcessor.batch_process_papers and the retrieval  *)
(* of the RAGAgent).  One call is drawn with its arguments, and the action *)
(* of the function called computes its return.                             *)
(*                                                                         *)
(* Part 3: TextProcessor.split_into_chunks, one step per loop iteration.   *)
(*                                                                         *)
(* Part 4: ResearcherAgent.research_async on its asyncio event loop.       *)
(***************************************************************************)
EXTENDS Integers, Sequences, FiniteSets, TLC

VARIABLES
    s3,                 \* the three objects under s3_prefix
    pc,                 \* position of each process inside its handler
    index,              \* self.index: the rows of the FAISS IndexFlatIP
    chunk_metadata,     \* self.chunk_metadata: str(row) -> metadata record
    chunk_id_to_index,  \* self.chunk_id_to_index: chunk_id -> row
    is_synced,          \* self._is_synced
    success,            \* local `success` of _upload_to_s3
    call,               \* history: the call that started last and what its
                        \*          S3 transfers came to
    durable,            \* history: the writer's state after an add into an
                        \*          empty store whose uploads all succeeded
    raced,              \* history: the running adds overlapped in time
    added,              \* history: every chunk_id appended by any process
    writers,            \* history: the processes that appended them
    allUploaded,        \* history: no upload has failed so far
    allFresh,           \* history: every add so far ran on a current store
    stale,              \* history: processes whose memory may be behind the bucket
    calls,              \* number of calls started so far
    fn,                 \* Part 2: the function called
    args,               \* Part 2: its arguments
    ret,                \* Part 2: <<>> until it returns, then <<its return value>>
    split_text,         \* Part 3: the argument `text` of split_into_chunks
    split_start,        \* Part 3: its local `start`
    split_chunks,       \* Part 3: its local `chunks`
    split_pc,           \* Part 3: position inside split_into_chunks
    split_windows,      \* Part 3, history: <<start, end>> of each chunk appended
    research_pc,        \* Part 4: position inside research_async
    enabled_sources,    \* Part 4: self.enabled_sources
    search_sources,     \* Part 4: sources or self.enabled_sources
    provider,           \* Part 4: what each provider's server answers
    task,               \* Part 4: the state of each search task
    depth,              \* Part 4: nesting of _make_request inside itself
    search_results,     \* Part 4: what each finished search task returned
    final_papers,       \* Part 4: the ranked papers to evaluate
    evaluated_papers,   \* Part 4: the papers evaluated so far
    research_result     \* Part 4: <<>> until the return value is built

storeVars == <<s3, pc, index, chunk_metadata, chunk_id_to_index, is_synced, success,
               call, durable, raced, added, writers, allUploaded, allFresh, stale,
               calls>>

pureVars == <<fn, args, ret>>

splitVars == <<split_text, split_start, split_chunks, split_pc, split_windows>>

researchVars == <<research_pc, enabled_sources, search_sources, provider, task, depth,
                  search_results, final_papers, evaluated_papers, research_result>>

vars == <<storeVars, pureVars, splitVars, researchVars>>

----------------------------------------------------------------------------
(* Bounds *)

MaxRows == 2        \* rows an index may hold
MaxBatch == 2       \* chunks in one add_chunks call
MaxCalls == 3       \* calls of the store's methods in one run

Procs == {"p1", "p2"}

\* The chunk_id strings that occur.
ChunkIds == {"c1", "c2"}

Texts == {"ta"}

\* TextChunk (src/rag/text_processor.py:14-24); `text` stands for the payload
\* fields that add_chunks copies verbatim next to chunk_id.
TextChunk == [chunk_id : ChunkIds, text : Texts]

\* The raw embedding the embedding model yields for the text of each chunk:
\* vectors of different direction, none of unit length.
Embedding == [c \in ChunkIds |-> IF c = "c1" THEN <<2, 0>> ELSE <<0, 3>>]

\* An object of the bucket: absent, or present with its content.
Absent == [present |-> FALSE, data |-> <<>>]

Obj(content) == [present |-> TRUE, data |-> content]

\* str(faiss_index): the key under which chunk_metadata holds a row.
RowKey(i) == ToString(i)

\* Faulty variant of DictUpdate: assignment in place of update.
DictReplace(d, other) == other

\* dict.update(other): the keys of `other` overwrite those of `d`.
DictUpdate(d, other) ==
    [k \in (DOMAIN d) \cup (DOMAIN other) |->
        IF k \in DOMAIN other THEN other[k] ELSE d[k]]

\* np.linalg.norm, on vectors whose norm is integral.
Norm(vector) ==
    CHOOSE n \in 0..(vector[1] + vector[2]) :
        n * n = vector[1] * vector[1] + vector[2] * vector[2]

_normalize_vector(vector) ==
    IF Norm(vector) = 0
    THEN vector
    ELSE [i \in 1..2 |-> vector[i] \div Norm(vector)]

----------------------------------------------------------------------------
(* add_chunks: the loop over the chunks of the call *)

\* The inputs of one add_chunks call.
Batches == UNION {[1..n -> TextChunk] : n \in 0..MaxBatch}

\* The embeddings dict may lack the entry of a chunk.
EmbeddingDicts == {[c \in S |-> Embedding[c]] : S \in SUBSET ChunkIds}

NoneToAdd ==
    [vectors_to_add |-> <<>>,
     chunk_metadata_to_add |-> <<>>,
     id_mapping_to_add |-> <<>>]

\* Faulty variant of AddLoop: without the "already exists" skip.
RECURSIVE AddLoopNoSkip(_, _, _, _, _, _)
AddLoopNoSkip(chunks, embeddings, known, starting_index, i, acc) ==
    IF i > Len(chunks)
    THEN acc
    ELSE
        LET chunk == chunks[i]
            chunk_id == chunk.chunk_id
        IN  IF chunk_id \notin DOMAIN embeddings
            THEN AddLoopNoSkip(chunks, embeddings, known, starting_index, i + 1, acc)
            ELSE
                LET vectors == Append(acc.vectors_to_add,
                                      _normalize_vector(embeddings[chunk_id]))
                    faiss_index == starting_index + Len(vectors) - 1
                IN  AddLoopNoSkip(chunks, embeddings, known, starting_index, i + 1,
                        [vectors_to_add |-> vectors,
                         chunk_metadata_to_add |->
                            DictUpdate(acc.chunk_metadata_to_add,
                                (RowKey(faiss_index) :> [chunk_id |-> chunk_id,
                                                         text |-> chunk.text])),
                         id_mapping_to_add |->
                            DictUpdate(acc.id_mapping_to_add,
                                       (chunk_id :> faiss_index))])

RECURSIVE AddLoop(_, _, _, _, _, _)
AddLoop(chunks, embeddings, known, starting_index, i, acc) ==
    IF i > Len(chunks)
    THEN acc
    ELSE
        LET chunk == chunks[i]
            chunk_id == chunk.chunk_id
        IN  IF chunk_id \in DOMAIN known
            THEN AddLoop(chunks, embeddings, known, starting_index, i + 1, acc)
            ELSE IF chunk_id \notin DOMAIN embeddings
            THEN AddLoop(chunks, embeddings, known, starting_index, i + 1, acc)
            ELSE
                LET vectors == Append(acc.vectors_to_add,
                                      _normalize_vector(embeddings[chunk_id]))
                    faiss_index == starting_index + Len(vectors) - 1
                IN  AddLoop(chunks, embeddings, known, starting_index, i + 1,
                        [vectors_to_add |-> vectors,
                         chunk_metadata_to_add |->
                            DictUpdate(acc.chunk_metadata_to_add,
                                (RowKey(faiss_index) :> [chunk_id |-> chunk_id,
                                                         text |-> chunk.text])),
                         id_mapping_to_add |->
                            DictUpdate(acc.id_mapping_to_add,
                                       (chunk_id :> faiss_index))])

\* What the loop of add_chunks collects on a store.
ToAdd(store, chunks, embeddings) ==
    AddLoop(chunks, embeddings, store.chunk_id_to_index, Len(store.index), 1,
            NoneToAdd)

\* The end of add_chunks: the early returns, else the appends to the index and
\* the updates of the two dicts.
Applied(store, chunks, to_add) ==
    IF Len(chunks) = 0
    THEN store      \* "No chunks to add"
    ELSE IF Len(to_add.vectors_to_add) = 0
    THEN store      \* "No new vectors to add"
    ELSE [index |-> store.index \o to_add.vectors_to_add,
          chunk_metadata |->
              DictUpdate(store.chunk_metadata, to_add.chunk_metadata_to_add),
          chunk_id_to_index |->
              DictUpdate(store.chunk_id_to_index, to_add.id_mapping_to_add)]

\* The in-memory part of add_chunks: the store it leaves.
AddChunksResult(store, chunks, embeddings) ==
    Applied(store, chunks, ToAdd(store, chunks, embeddings))

\* One add_chunks call on a store: what its loop collects, the store it leaves,
\* whether it met a chunk_id already stored, and the store that the same call
\* made once more would leave.
AddCall(store, chunks, embeddings) ==
    LET to_add == ToAdd(store, chunks, embeddings)
        result == Applied(store, chunks, to_add)
    IN  [to_add |-> to_add,
         result |-> result,
         present |-> \E i \in 1..Len(chunks) :
                        chunks[i].chunk_id \in DOMAIN store.chunk_id_to_index,
         again |-> AddChunksResult(result, chunks, embeddings)]

----------------------------------------------------------------------------
(* History bookkeeping shared by the handlers *)

memory == <<index, chunk_metadata, chunk_id_to_index, is_synced>>

lossHistory == <<added, writers, allUploaded, allFresh, stale>>

\* The in-memory store of process p.
Store(p) ==
    [index |-> index[p],
     chunk_metadata |-> chunk_metadata[p],
     chunk_id_to_index |-> chunk_id_to_index[p]]

EmptyStore == [index |-> <<>>, chunk_metadata |-> <<>>, chunk_id_to_index |-> <<>>]

Idle(p) == pc[p] = "idle"

Uploading(p) == pc[p] \in {"up_index", "up_metadata", "up_mapping"}

\* The three objects a process would upload from its memory.
Snapshot(p) ==
    [index |-> Obj(index[p]),
     metadata |-> Obj(chunk_metadata[p]),
     mapping |-> Obj(chunk_id_to_index[p])]

NewCall(p, handler) ==
    [p |-> p, op |-> handler, failed |-> FALSE, aborted |-> FALSE, up |-> <<>>,
     starting_index |-> 0, count |-> 0, ids |-> {}, present |-> FALSE,
     again |-> EmptyStore]

NoDurable ==
    [valid |-> FALSE, count |-> 0, index |-> <<>>, chunk_metadata |-> <<>>,
     chunk_id_to_index |-> <<>>]

\* A call starts: adds race while another add is still uploading.
Starts(p, isAdd) ==
    /\ calls < MaxCalls
    /\ calls' = calls + 1
    /\ raced' = IF \A q \in Procs \ {p} : Idle(q)
                THEN FALSE
                ELSE isAdd /\ (raced \/ \E q \in Procs \ {p} : Uploading(q))

\* Every process has constructed its S3VectorStore on the still empty bucket:
\* the three downloads found nothing and _download_and_load set _is_synced.
StoreInit ==
    /\ s3 = [index |-> Absent, metadata |-> Absent, mapping |-> Absent]
    /\ pc = [p \in Procs |-> "idle"]
    /\ index = [p \in Procs |-> <<>>]
    /\ chunk_metadata = [p \in Procs |-> <<>>]
    /\ chunk_id_to_index = [p \in Procs |-> <<>>]
    /\ is_synced = [p \in Procs |-> TRUE]
    /\ success = [p \in Procs |-> TRUE]
    /\ call = NewCall("p1", "init")
    /\ durable = NoDurable
    /\ raced = FALSE
    /\ added = {}
    /\ writers = {}
    /\ allUploaded = TRUE
    /\ allFresh = TRUE
    /\ stale = {}
    /\ calls = 0

\* No call of a pure function is under way.
NoPureCall == fn = "none" /\ args = <<>> /\ ret = <<>>

\* split_into_chunks is not running.
NoSplit ==
    /\ split_text = <<>> /\ split_start = 0 /\ split_chunks = <<>> /\ split_pc = "none"
    /\ split_windows = <<>>

\* research_async is not running.
NoResearch ==
    /\ research_pc = "none"
    /\ enabled_sources = {}
    /\ search_sources = {}
    /\ provider = <<>>
    /\ task = <<>>
    /\ depth = 0
    /\ search_results = <<>>
    /\ final_papers = <<>>
    /\ evaluated_papers = <<>>
    /\ research_result = <<>>

----------------------------------------------------------------------------
(* __init__ and force_sync_from_s3: both run _download_and_load *)

\* S3VectorStore(...): a new instance in process p (also after a restart).
Construct(p) ==
    /\ Idle(p)
    /\ index' = [index EXCEPT ![p] = <<>>]
    /\ chunk_metadata' = [chunk_metadata EXCEPT ![p] = <<>>]
    /\ chunk_id_to_index' = [chunk_id_to_index EXCEPT ![p] = <<>>]
    /\ is_synced' = [is_synced EXCEPT ![p] = FALSE]
    /\ pc' = [pc EXCEPT ![p] = "dl_index"]
    /\ call' = NewCall(p, "init")
    /\ Starts(p, FALSE)
    /\ UNCHANGED <<s3, success, durable, lossHistory>>

force_sync_from_s3(p) ==
    /\ pc[p] = "idle"
    /\ pc' = [pc EXCEPT ![p] = "dl_index"]
    /\ call' = NewCall(p, "force_sync")
    /\ Starts(p, FALSE)
    /\ UNCHANGED <<s3, memory, success, durable, lossHistory>>

\* What one download-and-read of an object can come to:
\*   "ok"         head_object finds it, download_file and the read succeed;
\*   "absent"     head_object answers 404: _download_file_from_s3 returns False;
\*   "error"      head_object or download_file raises: _download_file_from_s3
\*                catches it and returns False as well;
\*   "load_error" the downloaded file cannot be read back (read_index or
\*                json.load raises): the except branch of _download_and_load.
\* `faults` are the failures the environment of a specification can produce.
DownloadOutcomes(object, faults) ==
    IF object.present
    THEN {"ok"} \cup faults
    ELSE {"absent"} \cup (faults \ {"load_error"})

\* A load returns: the process is current unless a transfer failed.
Loaded(p, failed) ==
    stale' = IF ~allUploaded THEN stale
             ELSE IF failed THEN stale \cup {p}
             ELSE stale \ {p}

\* The except branch of _download_and_load.
LoadFailed(p) ==
    /\ index' = [index EXCEPT ![p] = <<>>]
    /\ chunk_metadata' = [chunk_metadata EXCEPT ![p] = <<>>]
    /\ chunk_id_to_index' = [chunk_id_to_index EXCEPT ![p] = <<>>]
    /\ is_synced' = [is_synced EXCEPT ![p] = FALSE]
    /\ pc' = [pc EXCEPT ![p] = "idle"]
    /\ call' = [call EXCEPT !.aborted = TRUE]
    /\ Loaded(p, TRUE)
    /\ UNCHANGED <<s3, success, durable, raced, added, writers, allUploaded, allFresh, calls>>

DownloadIndex(p, faults) ==
    /\ pc[p] = "dl_index"
    /\ \E outcome \in DownloadOutcomes(s3.index, faults) :
        IF outcome = "load_error"
        THEN LoadFailed(p)
        ELSE /\ index' = IF outcome = "ok"
                         THEN [index EXCEPT ![p] = s3.index.data]
                         ELSE index
             /\ pc' = [pc EXCEPT ![p] = "dl_metadata"]
             /\ call' = [call EXCEPT !.failed = @ \/ outcome = "error"]
             /\ UNCHANGED <<s3, chunk_metadata, chunk_id_to_index, is_synced,
                            success, durable, raced, lossHistory, calls>>

\* Faulty variant of DownloadMetadata: the downloaded metadata is not loaded.
DownloadMetadataNotLoaded(p, faults) ==
    /\ pc[p] = "dl_metadata"
    /\ \E outcome \in DownloadOutcomes(s3.metadata, faults) :
        IF outcome = "load_error"
        THEN LoadFailed(p)
        ELSE /\ pc' = [pc EXCEPT ![p] = "dl_mapping"]
             /\ call' = [call EXCEPT !.failed = @ \/ outcome = "error"]
             /\ UNCHANGED <<s3, index, chunk_metadata, chunk_id_to_index, is_synced,
                            success, durable, raced, lossHistory, calls>>

DownloadMetadata(p, faults) ==
    /\ pc[p] = "dl_metadata"
    /\ \E outcome \in DownloadOutcomes(s3.metadata, faults) :
        IF outcome = "load_error"
        THEN LoadFailed(p)
        ELSE /\ chunk_metadata' = IF outcome = "ok"
                                  THEN [chunk_metadata EXCEPT ![p] = s3.metadata.data]
                                  ELSE chunk_metadata
             /\ pc' = [pc EXCEPT ![p] = "dl_mapping"]
             /\ call' = [call EXCEPT !.failed = @ \/ outcome = "error"]
             /\ UNCHANGED <<s3, index, chunk_id_to_index, is_synced,
                            success, durable, raced, lossHistory, calls>>

DownloadMapping(p, faults) ==
    /\ pc[p] = "dl_mapping"
    /\ \E outcome \in DownloadOutcomes(s3.mapping, faults) :
        IF outcome = "load_error"
        THEN LoadFailed(p)
        ELSE /\ chunk_id_to_index' = IF outcome = "ok"
                                     THEN [chunk_id_to_index EXCEPT ![p] = s3.mapping.data]
                                     ELSE chunk_id_to_index
             /\ is_synced' = [is_synced EXCEPT ![p] = TRUE]
             /\ pc' = [pc EXCEPT ![p] = "idle"]
             /\ call' = [call EXCEPT !.failed = @ \/ outcome = "error"]
             /\ Loaded(p, call'.failed)
             /\ UNCHANGED <<s3, index, chunk_metadata, success, durable, raced,
                            added, writers, allUploaded, allFresh, calls>>

----------------------------------------------------------------------------
(* add_chunks and _upload_to_s3 *)

add_chunks(p) ==
    /\ pc[p] = "idle"
    /\ \E c \in {AddCall(Store(p), chunks, embeddings) :
                    chunks \in Batches, embeddings \in EmbeddingDicts} :
        /\ Len(c.result.index) <= MaxRows
        /\ call' = [NewCall(p, "add") EXCEPT
                        !.starting_index = Len(index[p]),
                        !.count = Len(c.to_add.vectors_to_add),
                        !.ids = DOMAIN c.to_add.id_mapping_to_add,
                        !.present = c.present,
                        !.again = c.again]
        /\ Starts(p, c.result # Store(p))
        /\ index' = [index EXCEPT ![p] = c.result.index]
        /\ chunk_metadata' = [chunk_metadata EXCEPT ![p] = c.result.chunk_metadata]
        /\ chunk_id_to_index' =
               [chunk_id_to_index EXCEPT ![p] = c.result.chunk_id_to_index]
        /\ IF c.result = Store(p)
           THEN \* returned before _upload_to_s3
                UNCHANGED <<pc, success, durable, lossHistory>>
           ELSE /\ success' = [success EXCEPT ![p] = TRUE]
                /\ pc' = [pc EXCEPT ![p] = "up_index"]
                /\ durable' = NoDurable
                /\ IF allUploaded
                   THEN /\ added' = added \cup DOMAIN c.to_add.id_mapping_to_add
                        /\ writers' = writers \cup {p}
                        /\ allFresh' = (allFresh /\ p \notin stale)
                   ELSE UNCHANGED <<added, writers, allFresh>>
                /\ UNCHANGED <<allUploaded, stale>>
    /\ UNCHANGED <<s3, is_synced>>

\* _upload_file_to_s3: upload_file succeeds, or raises and False is returned.
\* The loss history is kept only while no upload has failed.
Uploaded(p, ok) ==
    /\ success' = [success EXCEPT ![p] = success[p] /\ ok]
    /\ call' = [call EXCEPT !.up = Append(@, ok)]
    /\ IF allUploaded /\ ok
       THEN /\ stale' = stale \cup (Procs \ {p})
            /\ UNCHANGED <<added, writers, allUploaded, allFresh>>
       ELSE /\ allUploaded' = FALSE
            /\ added' = {}
            /\ writers' = {}
            /\ allFresh' = FALSE
            /\ stale' = {}
    /\ UNCHANGED <<index, chunk_metadata, chunk_id_to_index, raced, calls>>

UploadIndex(p, results) ==
    /\ pc[p] = "up_index"
    /\ \E ok \in results :
        /\ s3' = IF ok THEN [s3 EXCEPT !.index = Obj(index[p])] ELSE s3
        /\ Uploaded(p, ok)
    /\ pc' = [pc EXCEPT ![p] = "up_metadata"]
    /\ UNCHANGED <<is_synced, durable>>

UploadMetadata(p, results) ==
    /\ pc[p] = "up_metadata"
    /\ \E ok \in results :
        /\ s3' = IF ok THEN [s3 EXCEPT !.metadata = Obj(chunk_metadata[p])] ELSE s3
        /\ Uploaded(p, ok)
    /\ pc' = [pc EXCEPT ![p] = "up_mapping"]
    /\ UNCHANGED <<is_synced, durable>>

\* An add returns: what it wrote is durable if it filled an empty store, no
\* other add ran meanwhile and its three uploads succeeded.
AddReturned(p) ==
    durable' = IF call.p = p /\ call.starting_index = 0 /\ ~raced
                    /\ call'.up = <<TRUE, TRUE, TRUE>>
                 THEN [valid |-> TRUE, count |-> call.count, index |-> index[p],
                       chunk_metadata |-> chunk_metadata[p],
                       chunk_id_to_index |-> chunk_id_to_index[p]]
                 ELSE NoDurable

\* Faulty variant of UploadMapping: _is_synced follows the last upload alone.
UploadMappingLastOnly(p, results) ==
    /\ pc[p] = "up_mapping"
    /\ \E ok \in results :
        /\ s3' = IF ok THEN [s3 EXCEPT !.mapping = Obj(chunk_id_to_index[p])] ELSE s3
        /\ Uploaded(p, ok)
        /\ is_synced' = [is_synced EXCEPT ![p] = ok]
    /\ pc' = [pc EXCEPT ![p] = "idle"]
    /\ AddReturned(p)

UploadMapping(p, results) ==
    /\ pc[p] = "up_mapping"
    /\ \E ok \in results :
        /\ s3' = IF ok THEN [s3 EXCEPT !.mapping = Obj(chunk_id_to_index[p])] ELSE s3
        /\ Uploaded(p, ok)
    /\ is_synced' = [is_synced EXCEPT ![p] = success'[p]]
    /\ pc' = [pc EXCEPT ![p] = "idle"]
    /\ AddReturned(p)

----------------------------------------------------------------------------
(* Specifications *)

\* The failures of S3 and of the local cache.
AllFaults == {"error", "load_error"}

\* The parts of the model a specification of the store leaves alone.
StoreOnly == UNCHANGED <<pureVars, splitVars, researchVars>>

Init == StoreInit /\ NoPureCall /\ NoSplit /\ NoResearch

\* One process, any pattern of failed uploads and downloads.
Next ==
    \/ Construct("p1") /\ StoreOnly
    \/ force_sync_from_s3("p1") /\ StoreOnly
    \/ DownloadIndex("p1", AllFaults) /\ StoreOnly
    \/ DownloadMetadata("p1", AllFaults) /\ StoreOnly
    \/ DownloadMapping("p1", AllFaults) /\ StoreOnly
    \/ add_chunks("p1") /\ StoreOnly
    \/ UploadIndex("p1", BOOLEAN) /\ StoreOnly
    \/ UploadMetadata("p1", BOOLEAN) /\ StoreOnly
    \/ UploadMapping("p1", BOOLEAN) /\ StoreOnly

Spec == Init /\ [][Next]_vars

\* External serialization: a call starts and runs only while no other runs.
Turn(p) == \A q \in Procs \ {p} : Idle(q)

\* Several processes on one bucket whose calls never overlap in time.
NextSerial ==
    \/ \E p \in Procs : Turn(p) /\ Construct(p) /\ StoreOnly
    \/ \E p \in Procs : Turn(p) /\ force_sync_from_s3(p) /\ StoreOnly
    \/ \E p \in Procs : Turn(p) /\ DownloadIndex(p, {}) /\ StoreOnly
    \/ \E p \in Procs : Turn(p) /\ DownloadMetadata(p, {}) /\ StoreOnly
    \/ \E p \in Procs : Turn(p) /\ DownloadMapping(p, {}) /\ StoreOnly
    \/ \E p \in Procs : Turn(p) /\ add_chunks(p) /\ StoreOnly
    \/ \E p \in Procs : Turn(p) /\ UploadIndex(p, {TRUE}) /\ StoreOnly
    \/ \E p \in Procs : Turn(p) /\ UploadMetadata(p, {TRUE}) /\ StoreOnly
    \/ \E p \in Procs : Turn(p) /\ UploadMapping(p, {TRUE}) /\ StoreOnly

SpecSerial == Init /\ [][NextSerial]_vars

\* Several processes on one bucket without any lock: their calls interleave
\* at every S3 transfer.  S3 itself does not fail here.
NextRace ==
    \/ \E p \in Procs : Construct(p) /\ StoreOnly
    \/ \E p \in Procs : force_sync_from_s3(p) /\ StoreOnly
    \/ \E p \in Procs : DownloadIndex(p, {}) /\ StoreOnly
    \/ \E p \in Procs : DownloadMetadata(p, {}) /\ StoreOnly
    \/ \E p \in Procs : DownloadMapping(p, {}) /\ StoreOnly
    \/ \E p \in Procs : add_chunks(p) /\ StoreOnly
    \/ \E p \in Procs : UploadIndex(p, {TRUE}) /\ StoreOnly
    \/ \E p \in Procs : UploadMetadata(p, {TRUE}) /\ StoreOnly
    \/ \E p \in Procs : UploadMapping(p, {TRUE}) /\ StoreOnly

SpecRace == Init /\ [][NextRace]_vars

----------------------------------------------------------------------------
(* Claims about the S3 vector store *)

Returned(handlers) == call.op \in handlers /\ pc[call.p] = "idle"

\* What the bucket holds, empty where it has no object.
RemoteStore ==
    [index |-> s3.index.data,
     chunk_metadata |-> s3.metadata.data,
     chunk_id_to_index |-> s3.mapping.data]

IdMapBijective(store) ==
    /\ Cardinality(DOMAIN store.chunk_id_to_index) = Len(store.index)
    /\ Cardinality(DOMAIN store.chunk_metadata) = Len(store.index)
    /\ \A c, d \in DOMAIN store.chunk_id_to_index :
            c # d => store.chunk_id_to_index[c] # store.chunk_id_to_index[d]
    /\ \A c \in DOMAIN store.chunk_id_to_index :
            /\ store.chunk_id_to_index[c] \in 0..(Len(store.index) - 1)
            /\ RowKey(store.chunk_id_to_index[c]) \in DOMAIN store.chunk_metadata
            /\ store.chunk_metadata[RowKey(store.chunk_id_to_index[c])].chunk_id = c

\* C1: between calls, chunk_id -> row is a bijection onto the rows 0..ntotal-1:
\* vectors, id-map entries and metadata entries are equally many, no two
\* chunk_ids share a row, and the metadata of a row carries the chunk_id that
\* maps to it.
C1_IdMapBijection ==
    \A p \in Procs : pc[p] = "idle" => IdMapBijective(Store(p))

\* C2: after add_chunks, calling it once more with the same chunks and
\* embeddings leaves the index, the id map and the metadata map as the first
\* call left them: no row is added for a chunk_id that is present.
C2_AddIdempotent ==
    call.op = "add" => call.again = Store(call.p)

\* An add_chunks call met a chunk_id that was already stored and added nothing.
C2_Witness ==
    Returned({"add"}) /\ call.present /\ call.count = 0 /\ Len(index[call.p]) > 0

\* C3: after an add of N chunks into an empty store whose three uploads
\* succeeded, a new instance whose downloads succeed holds N rows and the
\* writer's id map and metadata map.
C3_DurabilityRoundTrip ==
    (durable.valid /\ Returned({"init"}) /\ ~call.failed /\ ~call.aborted) =>
        /\ Len(index[call.p]) = durable.count
        /\ chunk_id_to_index[call.p] = durable.chunk_id_to_index
        /\ chunk_metadata[call.p] = durable.chunk_metadata

C3_Witness ==
    /\ durable.valid /\ durable.count = 2
    /\ Returned({"init"}) /\ ~call.failed /\ ~call.aborted

PartialArtifacts ==
    /\ \E k \in DOMAIN s3 : s3[k].present
    /\ \E k \in DOMAIN s3 : ~s3[k].present

\* C4: a new instance that finds only some of the three objects in the bucket
\* starts empty.
C4_PartialLoadResets ==
    (Returned({"init"}) /\ PartialArtifacts) => Store(call.p) = EmptyStore

\* C5: a load during which a transfer failed leaves the store empty and unsynced.
C5_TransferFailureRollsBack ==
    (Returned({"init", "force_sync"}) /\ call.failed) =>
        Store(call.p) = EmptyStore /\ ~is_synced[call.p]

\* C6: after an add_chunks that uploaded, the bucket holds the three objects of
\* the new snapshot, or none of its uploads took effect.
C6_UploadAllOrNothing ==
    (Returned({"add"}) /\ call.count > 0) =>
        \/ s3 = Snapshot(call.p)
        \/ call.up = <<FALSE, FALSE, FALSE>>

\* C7: after an add_chunks that appended, the appended chunks are in memory;
\* the store is unsynced if an upload failed and synced only if all three
\* succeeded.
C7_FailedUploadKeepsMemory ==
    (Returned({"add"}) /\ call.count > 0) =>
        /\ Len(index[call.p]) = call.starting_index + call.count
        /\ call.ids \subseteq DOMAIN chunk_id_to_index[call.p]
        /\ \A i \in call.starting_index..(Len(index[call.p]) - 1) :
                RowKey(i) \in DOMAIN chunk_metadata[call.p]
        /\ (\E i \in 1..3 : ~call.up[i]) => ~is_synced[call.p]
        /\ is_synced[call.p] => call.up = <<TRUE, TRUE, TRUE>>

C7_Witness ==
    /\ Returned({"add"}) /\ call.count > 0
    /\ call.up = <<TRUE, FALSE, TRUE>>
    /\ ~is_synced[call.p]

\* C8: after force_sync_from_s3 the memory is what the bucket holds, and the
\* store is synced only if it is.
C8_ForceSyncDiscardsMemory ==
    Returned({"force_sync"}) =>
        /\ (~call.failed /\ ~call.aborted) => Store(call.p) = RemoteStore
        /\ is_synced[call.p] => Store(call.p) = RemoteStore

\* C9: after add_chunks calls of two processes overlapped, the bucket holds
\* the three objects of one of them.
C9_LastWriterWins ==
    (raced /\ \A p \in Procs : pc[p] = "idle") =>
        \E p \in Procs : s3 = Snapshot(p)

\* The bucket holds every chunk appended so far.
NothingLost ==
    \A c \in added :
        /\ c \in DOMAIN s3.mapping.data
        /\ s3.mapping.data[c] < Len(s3.index.data)
        /\ RowKey(s3.mapping.data[c]) \in DOMAIN s3.metadata.data
        /\ s3.metadata.data[RowKey(s3.mapping.data[c])].chunk_id = c

\* C10: with serialized calls and no failed upload, the bucket holds every
\* chunk any process appended.
C10_SerializedAddsKeepAll ==
    ((\A p \in Procs : pc[p] = "idle") /\ allUploaded) => NothingLost

\* C10, amended: with serialized calls and no failed transfer, the bucket holds
\* every chunk any process appended, provided every process that adds had
\* loaded the bucket after the last upload of any other process.
C10_SerializedCurrentAddsKeepAll ==
    ((\A p \in Procs : pc[p] = "idle") /\ allUploaded /\ allFresh) => NothingLost

C10_Witness ==
    /\ \A p \in Procs : pc[p] = "idle"
    /\ allUploaded /\ allFresh
    /\ writers = Procs
    /\ added = ChunkIds

----------------------------------------------------------------------------
(* Part 2: paper records (src/agents/researcher.py) *)

\* A paper is a Python dict: a function from the keys it has.  A field that
\* may be None holds None or <<value>>; title, authors and sources hold lists.
None == <<>>

\* dict.get(key): None when the key is missing.
Get(d, key) == IF key \in DOMAIN d THEN d[key] ELSE None

\* dict.get(key, default), used for the list-valued fields.
GetOr(d, key, default) == IF key \in DOMAIN d THEN d[key] ELSE default

\* d[key] = value
DictSet(d, key, value) ==
    [x \in (DOMAIN d) \cup {key} |-> IF x = key THEN value ELSE d[x]]

\* The fields that hold numbers: their falsy value is 0, that of the others "".
IntKeys == {"citation_count", "year"}

\* Python truthiness of a field: not None, not 0, not "".
Truthy(key, x) == x # None /\ x[1] # (IF key \in IntKeys THEN 0 ELSE "")

\* str.lower() on the words and names that occur.
Lower(w) ==
    CASE w = "Deep" -> "deep"
      [] w = "Nets" -> "nets"
      [] w = "Ann" -> "ann"
      [] w = "Bob" -> "bob"
      [] w = "Cy" -> "cy"
      [] w = "Di" -> "di"
      [] w = "Ed" -> "ed"
      [] OTHER -> w

\* set(title.lower().split()): a title is held as the list of its words.
TitleWords(paper) ==
    LET title == GetOr(paper, "title", <<>>)
    IN  {Lower(title[i]) : i \in DOMAIN title}

\* set(author.lower() for author in paper.get('authors', []))
AuthorNames(paper) ==
    LET authors == GetOr(paper, "authors", <<>>)
    IN  {Lower(authors[i]) : i \in DOMAIN authors}

\* Both papers carry the identifier `key`, non-empty, and it is the same.
SameIdentifier(paper1, paper2, key) ==
    /\ Truthy(key, Get(paper1, key))
    /\ Truthy(key, Get(paper2, key))
    /\ paper1[key] = paper2[key]

\* The weights and the default threshold of _are_papers_similar, in hundredths.
TitleWeight == 80

AuthorWeight == 20

DefaultThreshold == 85

\* combined_sim >= threshold, with title_sim = ti/tu and author_sim = ai/au
\* (0 when an author set is empty), multiplied out by 100 * tu * au.  For
\* sets of up to forty elements the floating-point comparison of the code
\* gives the answer of this exact one.
CombinedAtLeast(title1_words, title2_words, authors1, authors2, threshold) ==
    LET ti == Cardinality(title1_words \cap title2_words)
        tu == Cardinality(title1_words \cup title2_words)
        both == authors1 # {} /\ authors2 # {}
        ai == IF both THEN Cardinality(authors1 \cap authors2) ELSE 0
        au == IF both THEN Cardinality(authors1 \cup authors2) ELSE 1
    IN  TitleWeight * ti * au + AuthorWeight * ai * tu >= threshold * tu * au

\* Faulty variant of _are_papers_similar: the titles are looked at before the
\* identifiers.
TitlesBeforeIdentifiers(paper1, paper2, threshold) ==
    IF TitleWords(paper1) = {} \/ TitleWords(paper2) = {}
    THEN FALSE
    ELSE IF SameIdentifier(paper1, paper2, "arxiv_id")
    THEN TRUE
    ELSE IF SameIdentifier(paper1, paper2, "doi")
    THEN TRUE
    ELSE CombinedAtLeast(TitleWords(paper1), TitleWords(paper2),
                         AuthorNames(paper1), AuthorNames(paper2), threshold)

_are_papers_similar(paper1, paper2, threshold) ==
    IF SameIdentifier(paper1, paper2, "arxiv_id")
    THEN TRUE
    ELSE IF SameIdentifier(paper1, paper2, "doi")
    THEN TRUE
    ELSE IF TitleWords(paper1) = {} \/ TitleWords(paper2) = {}
    THEN FALSE
    ELSE CombinedAtLeast(TitleWords(paper1), TitleWords(paper2),
                         AuthorNames(paper1), AuthorNames(paper2), threshold)

\* for source in secondary['sources']: append it unless primary has it.
RECURSIVE MergeSources(_, _, _)
MergeSources(sources, others, i) ==
    IF i > Len(others)
    THEN sources
    ELSE IF \E j \in DOMAIN sources : sources[j] = others[i]
    THEN MergeSources(sources, others, i + 1)
    ELSE MergeSources(Append(sources, others[i]), others, i + 1)

\* Faulty variant of Backfill: the secondary's value wins whenever it has one.
BackfillOverwrites(primary, secondary, key) ==
    IF Truthy(key, Get(secondary, key))
    THEN DictSet(primary, key, secondary[key])
    ELSE primary

\* if not primary.get(key) and secondary.get(key): primary[key] = secondary[key]
Backfill(primary, secondary, key) ==
    IF ~Truthy(key, Get(primary, key)) /\ Truthy(key, Get(secondary, key))
    THEN DictSet(primary, key, secondary[key])
    ELSE primary

\* The primary as _merge_paper_info leaves (and returns) it.
_merge_paper_info(primary, secondary) ==
    LET sourced == DictSet(primary, "sources",
                       MergeSources(GetOr(primary, "sources", <<>>),
                                    GetOr(secondary, "sources", <<>>), 1))
    IN  Backfill(
            Backfill(
                Backfill(
                    Backfill(sourced, secondary, "citation_count"),
                    secondary, "pdf_url"),
                secondary, "venue"),
            secondary, "doi")

\* _deduplicate_papers: a paper similar to one already kept is merged into
\* the first such one, any other paper is kept.
RECURSIVE DeduplicateLoop(_, _, _)
DeduplicateLoop(papers, i, unique) ==
    IF i > Len(papers)
    THEN unique
    ELSE LET similar == {j \in DOMAIN unique :
                            _are_papers_similar(papers[i], unique[j], DefaultThreshold)}
         IN  IF similar = {}
             THEN DeduplicateLoop(papers, i + 1, Append(unique, papers[i]))
             ELSE LET j == CHOOSE k \in similar : \A l \in similar : k <= l
                  IN  DeduplicateLoop(papers, i + 1,
                          [unique EXCEPT ![j] = _merge_paper_info(@, papers[i])])

_deduplicate_papers(papers) == DeduplicateLoop(papers, 1, <<>>)

\* x or 0
OrZero(key, x) == IF Truthy(key, x) THEN x[1] ELSE 0

\* Faulty variant of _paper_sort_key: the year is left out of the key.
SortKeyWithoutYear(paper) ==
    <<OrZero("citation_count", Get(paper, "citation_count")),
      0,
      IF Truthy("pdf_url", Get(paper, "pdf_url")) THEN 1 ELSE 0>>

_paper_sort_key(paper) ==
    <<OrZero("citation_count", Get(paper, "citation_count")),
      OrZero("year", Get(paper, "year")),
      IF Truthy("pdf_url", Get(paper, "pdf_url")) THEN 1 ELSE 0>>

\* Python's order on tuples of numbers: a < b.
TupleLess(a, b) ==
    \E i \in 1..3 : a[i] < b[i] /\ \A j \in 1..(i - 1) : a[j] = b[j]

\* list.sort(key=..., reverse=True): descending and stable, so a paper goes
\* behind every paper whose key is not smaller than its own.
RECURSIVE InsertDescending(_, _, _)
InsertDescending(sorted, paper, i) ==
    IF i > Len(sorted)
    THEN Append(sorted, paper)
    ELSE IF TupleLess(_paper_sort_key(sorted[i]), _paper_sort_key(paper))
    THEN SubSeq(sorted, 1, i - 1) \o <<paper>> \o SubSeq(sorted, i, Len(sorted))
    ELSE InsertDescending(sorted, paper, i + 1)

RECURSIVE SortDescending(_, _, _)
SortDescending(papers, i, sorted) ==
    IF i > Len(papers)
    THEN sorted
    ELSE SortDescending(papers, i + 1, InsertDescending(sorted, papers[i], 1))

\* Step 4 of research_async: sort, then unique_papers[:max_papers].
SortAndLimit(unique_papers, max_papers) ==
    LET sorted == SortDescending(unique_papers, 1, <<>>)
    IN  SubSeq(sorted, 1, IF Len(sorted) < max_papers THEN Len(sorted) ELSE max_papers)

----------------------------------------------------------------------------
(* Part 2: search (src/rag/s3_vector_store.py, src/rag/vector_store.py) *)

MaxK == 3           \* largest k of a search

\* Inner product of two vectors.
Dot(u, v) == u[1] * v[1] + u[2] * v[2]

\* The row ids self.index.search(normalized_query, k) can answer: the rows by
\* descending inner product, those of equal score in an order FAISS chooses,
\* and -1 in the places for which the index has no row.
IndexSearch(rows, normalized_query, k) ==
    LET n == Len(rows)
        m == IF n < k THEN n ELSE k
        score(idx) == Dot(rows[idx + 1], normalized_query)
    IN  {indices \in [1..k -> (-1)..(n - 1)] :
            /\ \A i \in 1..k : (indices[i] = -1) <=> (i > m)
            /\ \A i, j \in 1..m : i < j =>
                    /\ indices[i] # indices[j]
                    /\ score(indices[i]) >= score(indices[j])
            /\ \A idx \in 0..(n - 1) :
                    (\A i \in 1..m : indices[i] # idx) =>
                        \A i \in 1..m : score(idx) <= score(indices[i])}

\* Faulty variant of SearchLoop: a result below the threshold is kept.
RECURSIVE SearchLoopNoThreshold(_, _, _, _, _, _)
SearchLoopNoThreshold(store, normalized_query, score_threshold, indices, i, results) ==
    IF i > Len(indices)
    THEN results
    ELSE
        LET idx == indices[i]
            metadata == GetOr(store.chunk_metadata, RowKey(idx), <<>>)
        IN  IF idx = -1
            THEN SearchLoopNoThreshold(store, normalized_query, score_threshold,
                                       indices, i + 1, results)
            ELSE IF DOMAIN metadata = {}
            THEN SearchLoopNoThreshold(store, normalized_query, score_threshold,
                                       indices, i + 1, results)
            ELSE SearchLoopNoThreshold(store, normalized_query, score_threshold,
                    indices, i + 1,
                    Append(results,
                        [score |-> Dot(store.index[idx + 1], normalized_query),
                         chunk_id |-> GetOr(metadata, "chunk_id", ""),
                         text |-> GetOr(metadata, "text", "")]))

\* The loop of search over what FAISS answered.
RECURSIVE SearchLoop(_, _, _, _, _, _)
SearchLoop(store, normalized_query, score_threshold, indices, i, results) ==
    IF i > Len(indices)
    THEN results
    ELSE
        LET idx == indices[i]
            metadata == GetOr(store.chunk_metadata, RowKey(idx), <<>>)
        IN  IF idx = -1
            THEN SearchLoop(store, normalized_query, score_threshold, indices,
                            i + 1, results)
            ELSE IF Dot(store.index[idx + 1], normalized_query) < score_threshold
            THEN SearchLoop(store, normalized_query, score_threshold, indices,
                            i + 1, results)
            ELSE IF DOMAIN metadata = {}
            THEN SearchLoop(store, normalized_query, score_threshold, indices,
                            i + 1, results)
            ELSE SearchLoop(store, normalized_query, score_threshold, indices,
                    i + 1,
                    Append(results,
                        [score |-> Dot(store.index[idx + 1], normalized_query),
                         chunk_id |-> GetOr(metadata, "chunk_id", ""),
                         text |-> GetOr(metadata, "text", "")]))

\* search, given the row ids FAISS answers (none are asked of an empty index).
search(store, query_embedding, k, score_threshold, indices) ==
    IF Len(store.index) = 0
    THEN <<>>
    ELSE SearchLoop(store, _normalize_vector(query_embedding), score_threshold,
                    indices, 1, <<>>)

----------------------------------------------------------------------------
(* Part 2: the calls drawn and the specification *)

MaxPapers == 3      \* papers in a list that is ranked

\* The dicts with the one key `key` and a value of `values`, and the dict
\* without the key where the key may be missing.
Field(key, values, optional) ==
    {(key :> v) : v \in values} \cup (IF optional THEN {<<>>} ELSE {})

\* The records _are_papers_similar is called on.
SimilarityPapers ==
    {t @@ a @@ x @@ d :
        t \in Field("title", {<<>>, <<"Deep", "Nets">>, <<"deep", "nets">>,
                              <<"deep">>}, TRUE),
        a \in Field("authors", {<<"Ann">>, <<"ann", "Bob">>, <<"Ann", "Cy", "Di">>,
                                <<"Ed">>}, TRUE),
        x \in Field("arxiv_id", {<<"">>, <<"2301.1">>, <<"2301.2">>}, TRUE),
        d \in Field("doi", {None, <<"10.1/a">>}, FALSE)}

\* A title of sixteen words, and two records whose titles share fifteen of
\* sixteen words and whose authors share one of two names: 0.8 * 15/16 is
\* 0.75 and 0.2 * 1/2 is 0.1 in binary floating point as well, and their sum
\* is the float 0.85 itself.
SixteenWords ==
    <<"a", "study", "of", "deep", "nets", "for", "fast", "and", "robust",
      "image", "search", "in", "large", "open", "paper", "archives">>

BoundaryPapers ==
    {[title |-> SixteenWords, authors |-> <<"ann", "Bob">>, doi |-> None],
     [title |-> SubSeq(SixteenWords, 1, Len(SixteenWords) - 1),
      authors |-> <<"Ann">>, doi |-> None]}

\* The records _merge_paper_info is called on: the primary's truthy values
\* differ from the secondary's.
PrimaryPapers ==
    {t @@ s @@ c @@ u @@ v @@ d :
        t \in Field("title", {<<"Deep", "Nets">>}, FALSE),
        s \in Field("sources", {<<"arxiv">>, <<"arxiv", "semantic_scholar">>}, TRUE),
        c \in Field("citation_count", {None, <<0>>, <<7>>}, FALSE),
        u \in Field("pdf_url", {None, <<"http://a/1">>}, FALSE),
        v \in Field("venue", {<<"">>, <<"arXiv preprint">>}, FALSE),
        d \in Field("doi", {<<"10.1/a">>}, TRUE)}

SecondaryPapers ==
    {t @@ s @@ c @@ u @@ v @@ d :
        t \in Field("title", {<<"deep", "nets">>}, FALSE),
        s \in Field("sources", {<<"semantic_scholar">>}, TRUE),
        c \in Field("citation_count", {None, <<0>>, <<9>>}, FALSE),
        u \in Field("pdf_url", {None, <<"http://s/2">>}, FALSE),
        v \in Field("venue", {<<"">>, <<"NeurIPS">>}, FALSE),
        d \in Field("doi", {None, <<"10.1/b">>}, FALSE)}

\* The records _deduplicate_papers is called on: two papers by their titles,
\* each with or without the same doi, from either source.
DuplicatePapers ==
    {t @@ d @@ s :
        t \in {[title |-> <<"Deep", "Nets">>, authors |-> <<"Ann">>],
               [title |-> <<"deep", "nets">>, authors |-> <<"ann">>],
               [title |-> <<"graph", "search">>, authors |-> <<"Ed">>]},
        d \in Field("doi", {None, <<"10.1/a">>}, FALSE),
        s \in Field("sources", {<<"arxiv">>, <<"semantic_scholar">>}, FALSE)}

MaxDuplicates == 3

\* The records that are ranked: keys (10, 2020, 1) twice, (10, 2020, 0),
\* (10, 2019, 0), (5, 2023, 1) and (0, 0, 1).
RankedPapers ==
    {("title" :> <<"deep">>) @@ ("citation_count" :> <<10>>) @@ ("year" :> <<2020>>)
        @@ ("pdf_url" :> <<"http://a/1">>),
     ("title" :> <<"nets">>) @@ ("citation_count" :> <<10>>) @@ ("year" :> <<2020>>)
        @@ ("pdf_url" :> <<"http://a/2">>),
     ("title" :> <<"deep">>) @@ ("citation_count" :> <<10>>) @@ ("year" :> <<2020>>)
        @@ ("pdf_url" :> None),
     ("title" :> <<"deep">>) @@ ("citation_count" :> <<10>>) @@ ("year" :> <<2019>>)
        @@ ("pdf_url" :> <<"">>),
     ("title" :> <<"deep">>) @@ ("citation_count" :> <<5>>) @@ ("year" :> <<2023>>)
        @@ ("pdf_url" :> <<"http://a/1">>),
     ("title" :> <<"deep">>) @@ ("citation_count" :> None)
        @@ ("pdf_url" :> <<"http://a/1">>)}

\* The stores search is called on: rows as add_chunks stores them, and for
\* each row its metadata, an empty dict, or no entry.
SearchStores ==
    UNION {
        {[index |-> [i \in 1..n |-> _normalize_vector(Embedding[ids[i]])],
          chunk_metadata |->
              [key \in {RowKey(i - 1) : i \in kept \cup blank} |->
                  LET i == CHOOSE j \in 1..n : RowKey(j - 1) = key
                  IN  IF i \in blank
                      THEN <<>>
                      ELSE [chunk_id |-> ids[i], text |-> "ta"]],
          chunk_id_to_index |-> <<>>] :
            ids \in [1..n -> ChunkIds],
            kept \in SUBSET (1..n),
            blank \in SUBSET (1..n)} :
        n \in 0..MaxRows}

QueryEmbeddings == {<<2, 0>>, <<0, 3>>, <<0, 0>>}

\* EmbeddingService: its fields _model_loaded and model, the latter None or
\* the embedding dimension of the SentenceTransformer loaded.
NotLoaded == [_model_loaded |-> FALSE, model |-> None]

DefaultDimension == 384

\* get_sentence_embedding_dimension() of the model that is loaded: the
\* dimension of the vectors of Embedding.
ModelDimension == 2

Services == {NotLoaded, [_model_loaded |-> TRUE, model |-> <<ModelDimension>>]}

\* What the calls the service makes come to: SentenceTransformer(...) raises
\* or not, model.encode raises or not.
Environments == [load_raises : BOOLEAN, encode_raises : BOOLEAN]

\* The outcome of a method: it raised, or returned `value`; and the service
\* as the call leaves it.
Raised(service) == [raised |-> TRUE, value |-> None, service |-> service]

ReturnsValue(service, value) == [raised |-> FALSE, value |-> value, service |-> service]

_load_model(service, env) ==
    IF service._model_loaded
    THEN ReturnsValue(service, None)
    ELSE IF env.load_raises
    THEN Raised(service)
    ELSE ReturnsValue([_model_loaded |-> TRUE, model |-> <<ModelDimension>>], None)

_ensure_model_loaded(service, env) ==
    IF ~service._model_loaded
    THEN _load_model(service, env)
    ELSE ReturnsValue(service, None)

get_embedding_dimension(service, env) ==
    LET ensured == _ensure_model_loaded(service, env)
    IN  IF ensured.raised
        THEN ensured
        ELSE IF ensured.service.model = None
        THEN ReturnsValue(ensured.service, DefaultDimension)
        ELSE ReturnsValue(ensured.service, ensured.service.model[1])

\* np.zeros(n)
Zeros(n) == [i \in 1..n |-> 0]

\* not text or not text.strip(): the text has no character but spaces.
IsBlank(text) == \A i \in DOMAIN text : text[i] = " "

\* model.encode(text): a vector that depends on the text, never zero.
Encode(text) ==
    LET i == CHOOSE j \in DOMAIN text : text[j] # " " /\ \A l \in 1..(j - 1) : text[l] = " "
    IN  IF text[i] = "a" THEN <<2, 0>> ELSE <<0, 3>>

encode_text(service, env, text) ==
    IF IsBlank(text)
    THEN LET dimension == get_embedding_dimension(service, env)
         IN  IF dimension.raised
             THEN dimension
             ELSE ReturnsValue(dimension.service, Zeros(dimension.value))
    ELSE LET ensured == _ensure_model_loaded(service, env)
         IN  IF ensured.raised
             THEN ensured
             ELSE IF env.encode_raises
             THEN LET dimension == get_embedding_dimension(ensured.service, env)
                  IN  ReturnsValue(dimension.service, Zeros(dimension.value))
             ELSE ReturnsValue(ensured.service, Encode(text))

\* The texts encode_text is called on.
QueryTexts == {<<>>, <<" ">>, <<" ", " ">>, <<"a">>, <<" ", ".">>}

\* search_by_text: the query is encoded and searched for; index.search may
\* raise on an index that holds rows (search returns before it on an empty one).
search_by_text(store, service, env, query_text, k, score_threshold, search_raises, indices) ==
    LET query_embedding == encode_text(service, env, query_text)
    IN  IF query_embedding.raised
        THEN query_embedding
        ELSE IF Len(store.index) > 0 /\ search_raises
        THEN Raised(query_embedding.service)
        ELSE ReturnsValue(query_embedding.service,
                          search(store, query_embedding.value, k, score_threshold,
                                 indices))

\* retrieve_relevant_context: the results of search_by_text, or [] from the
\* except branch.
retrieve_relevant_context(store, service, env, query, k, score_threshold, search_raises, indices) ==
    LET results == search_by_text(store, service, env, query, k, score_threshold,
                                  search_raises, indices)
    IN  IF results.raised THEN <<>> ELSE results.value

\* answer_question as far as the retrieval decides it: the chunks retrieved,
\* the status of the answer, and whether the retrieval met an exception.
answer_question(store, service, env, query, k, search_raises, indices) ==
    LET retrieved_chunks == retrieve_relevant_context(store, service, env, query, k, 0,
                                                      search_raises, indices)
    IN  [retrieved_chunks |-> retrieved_chunks,
         status |-> IF retrieved_chunks = <<>> THEN "no_context" ELSE "success",
         failed |-> search_by_text(store, service, env, query, k, 0, search_raises,
                                   indices).raised]

\* str(x) of a field that is None or a string.
Str(x) == IF x = None THEN "None" ELSE x[1]

\* hashlib.md5(topic_context.encode()).hexdigest()[:8] of the topics that occur.
TopicHash(topic_context) ==
    CASE topic_context = "rag" -> "7542dc7e"
      [] topic_context = "nlp" -> "4c5adbed"

\* The TextChunks process_paper makes of the n texts of one kind.
ChunksOfType(paper, paper_id, topic_paper_id, name, chunk_type, n) ==
    [i \in 1..n |->
        [chunk_id |-> topic_paper_id \o "_" \o name \o "_" \o ToString(i - 1),
         paper_id |-> paper_id,
         paper_title |-> paper.title,
         chunk_type |-> chunk_type]]

\* process_paper.  The record of a paper gives, in place of its abstract and
\* summary, the number of chunks split_into_chunks makes of each and the
\* number of key sentences extract_key_sentences finds.
process_paper(paper, topic_context) ==
    LET paper_id == GetOr(paper, "arxiv_id",
                          GetOr(paper, "id", GetOr(paper, "paper_id", <<"unknown">>)))
        topic_paper_id == IF topic_context # None /\ topic_context # <<"">>
                          THEN TopicHash(topic_context[1]) \o "_" \o Str(paper_id)
                          ELSE Str(paper_id)
    IN  ChunksOfType(paper, paper_id, topic_paper_id, "abstract", "abstract",
                     paper.abstract_chunks)
        \o ChunksOfType(paper, paper_id, topic_paper_id, "summary", "summary",
                        paper.summary_chunks)
        \o ChunksOfType(paper, paper_id, topic_paper_id, "key", "key_sentence",
                        paper.key_sentences)

RECURSIVE BatchLoop(_, _, _, _)
BatchLoop(papers, topic_context, i, all_chunks) ==
    IF i > Len(papers)
    THEN all_chunks
    ELSE BatchLoop(papers, topic_context, i + 1,
                   all_chunks \o process_paper(papers[i], topic_context))

batch_process_papers(papers, topic_context) == BatchLoop(papers, topic_context, 1, <<>>)

\* The papers that are processed: with an arxiv_id, with arxiv_id None (a
\* Semantic Scholar paper that is not on arXiv), with another id or with none.
ProcessedPapers ==
    {t @@ a @@ i @@ [abstract_chunks |-> n, summary_chunks |-> 1, key_sentences |-> 1] :
        t \in {[title |-> "A"], [title |-> "B"]},
        a \in Field("arxiv_id", {None, <<"2301.1">>}, TRUE),
        i \in Field("id", {<<"s1">>}, TRUE),
        n \in 1..2}

MaxProcessed == 2

TopicContexts == {None, <<"rag">>, <<"nlp">>}

\* encode_batch: the embeddings of the model, or zero vectors when
\* model.encode raises.
encode_batch(texts, encode_raises) ==
    [i \in DOMAIN texts |-> IF encode_raises THEN <<0, 0>> ELSE Embedding[texts[i]]]

\* create_embeddings_for_chunks: chunk_id -> row of encode_batch; a later
\* chunk of the same chunk_id overwrites an earlier one.  The text of a chunk
\* is identified with its chunk_id, whose embedding Embedding gives.
create_embeddings_for_chunks(chunks, encode_raises) ==
    LET chunk_ids == [i \in DOMAIN chunks |-> chunks[i].chunk_id]
        embeddings == encode_batch(chunk_ids, encode_raises)
    IN  [c \in {chunk_ids[i] : i \in DOMAIN chunk_ids} |->
            embeddings[CHOOSE i \in DOMAIN chunk_ids :
                            /\ chunk_ids[i] = c
                            /\ \A j \in DOMAIN chunk_ids : chunk_ids[j] = c => j <= i]]

\* add_papers_to_knowledge_base from the chunks on: the embeddings are
\* created and the chunks added, unless there are no embeddings.
AddToKnowledgeBase(store, chunks, encode_raises) ==
    LET embeddings == create_embeddings_for_chunks(chunks, encode_raises)
    IN  IF DOMAIN embeddings = {}
        THEN [status |-> "error", embeddings |-> embeddings, store |-> store]
        ELSE [status |-> "success", embeddings |-> embeddings,
              store |-> AddChunksResult(store, chunks, embeddings)]

ScoreThresholds == {0, 1}

\* One call of one of the functions, not yet returned.
PureInit ==
    /\ ret = <<>>
    /\ \/ /\ fn = "_are_papers_similar"
          /\ args \in (SimilarityPapers \X SimilarityPapers)
                        \cup (BoundaryPapers \X BoundaryPapers)
       \/ /\ fn = "_merge_paper_info"
          /\ args \in PrimaryPapers \X SecondaryPapers
       \/ /\ fn = "sort_and_limit"
          /\ args \in (UNION {[1..n -> RankedPapers] : n \in 0..MaxPapers})
                        \X (1..MaxPapers)
       \/ /\ fn = "_deduplicate_papers"
          /\ args \in {<<papers>> :
                        papers \in UNION {[1..n -> DuplicatePapers] : n \in 0..MaxDuplicates}}
       \/ /\ fn = "get_embedding_dimension"
          /\ args \in Services \X Environments
       \/ /\ fn = "encode_text"
          /\ args \in Services \X Environments \X QueryTexts
       \/ /\ fn = "batch_process_papers"
          /\ args \in (UNION {[1..n -> ProcessedPapers] : n \in 0..MaxProcessed})
                        \X TopicContexts
       \/ /\ fn = "answer_question"
          /\ args \in SearchStores \X Services \X Environments \X QueryTexts \X BOOLEAN
       \/ /\ fn = "add_papers_to_knowledge_base"
          /\ args \in {EmptyStore} \X Batches \X BOOLEAN
       \/ /\ fn = "search"
          /\ args \in SearchStores \X QueryEmbeddings \X (1..MaxK) \X ScoreThresholds

AreSimilarReturns ==
    /\ fn = "_are_papers_similar" /\ ret = <<>>
    /\ ret' = <<_are_papers_similar(args[1], args[2], DefaultThreshold)>>
    /\ UNCHANGED <<fn, args>>

MergeReturns ==
    /\ fn = "_merge_paper_info" /\ ret = <<>>
    /\ ret' = <<_merge_paper_info(args[1], args[2])>>
    /\ UNCHANGED <<fn, args>>

SortAndLimitReturns ==
    /\ fn = "sort_and_limit" /\ ret = <<>>
    /\ ret' = <<SortAndLimit(args[1], args[2])>>
    /\ UNCHANGED <<fn, args>>

DeduplicateReturns ==
    /\ fn = "_deduplicate_papers" /\ ret = <<>>
    /\ ret' = <<_deduplicate_papers(args[1])>>
    /\ UNCHANGED <<fn, args>>

GetEmbeddingDimensionReturns ==
    /\ fn = "get_embedding_dimension" /\ ret = <<>>
    /\ ret' = <<get_embedding_dimension(args[1], args[2])>>
    /\ UNCHANGED <<fn, args>>

EncodeTextReturns ==
    /\ fn = "encode_text" /\ ret = <<>>
    /\ ret' = <<encode_text(args[1], args[2], args[3])>>
    /\ UNCHANGED <<fn, args>>

BatchProcessReturns ==
    /\ fn = "batch_process_papers" /\ ret = <<>>
    /\ ret' = <<batch_process_papers(args[1], args[2])>>
    /\ UNCHANGED <<fn, args>>

\* answer_question returns, with the row ids FAISS answers, if it is asked,
\* for the query as encode_text encodes it.
AnswerQuestionReturns ==
    /\ fn = "answer_question" /\ ret = <<>>
    /\ LET query_embedding == encode_text(args[2], args[3], args[4])
           normalized_query == IF query_embedding.raised
                               THEN Zeros(ModelDimension)
                               ELSE _normalize_vector(query_embedding.value)
       IN  \E indices \in IndexSearch(args[1].index, normalized_query, MaxK) :
                ret' = <<answer_question(args[1], args[2], args[3], args[4], MaxK,
                                         args[5], indices)>>
    /\ UNCHANGED <<fn, args>>

AddToKnowledgeBaseReturns ==
    /\ fn = "add_papers_to_knowledge_base" /\ ret = <<>>
    /\ ret' = <<AddToKnowledgeBase(args[1], args[2], args[3])>>
    /\ UNCHANGED <<fn, args>>

\* search returns; the second component records the row ids FAISS answered.
SearchReturns ==
    /\ fn = "search" /\ ret = <<>>
    /\ \E indices \in IndexSearch(args[1].index, _normalize_vector(args[2]), args[3]) :
            ret' = <<search(args[1], args[2], args[3], args[4], indices), indices>>
    /\ UNCHANGED <<fn, args>>

PureOnly == UNCHANGED <<storeVars, splitVars, researchVars>>

NextPure ==
    \/ AreSimilarReturns /\ PureOnly
    \/ MergeReturns /\ PureOnly
    \/ SortAndLimitReturns /\ PureOnly
    \/ DeduplicateReturns /\ PureOnly
    \/ GetEmbeddingDimensionReturns /\ PureOnly
    \/ EncodeTextReturns /\ PureOnly
    \/ BatchProcessReturns /\ PureOnly
    \/ AnswerQuestionReturns /\ PureOnly
    \/ AddToKnowledgeBaseReturns /\ PureOnly
    \/ SearchReturns /\ PureOnly

InitPure == StoreInit /\ NoSplit /\ NoResearch /\ PureInit

SpecPure == InitPure /\ [][NextPure]_vars

----------------------------------------------------------------------------
(* Claims about search and the paper records *)

PureReturned(name) == fn = name /\ ret # <<>>

\* The result search builds for a row.
ResultOfRow(store, normalized_query, idx) ==
    [score |-> Dot(store.index[idx + 1], normalized_query),
     chunk_id |-> store.chunk_metadata[RowKey(idx)].chunk_id,
     text |-> store.chunk_metadata[RowKey(idx)].text]

\* C15: search returns at most k results, each with a score of at least the
\* threshold and the metadata of its row, in non-increasing score order; a row
\* with metadata that clears the threshold and is surely among the k highest
\* (fewer than k other rows score as much) is returned; an empty index gives
\* the empty list and a row without metadata is skipped.
C15_SearchResults ==
    PureReturned("search") =>
        LET store == args[1]
            q == _normalize_vector(args[2])
            k == args[3]
            results == ret[1]
            n == Len(store.index)
            score(idx) == Dot(store.index[idx + 1], q)
            HasMetadata(idx) ==
                /\ RowKey(idx) \in DOMAIN store.chunk_metadata
                /\ DOMAIN store.chunk_metadata[RowKey(idx)] # {}
            Eligible(idx) == HasMetadata(idx) /\ score(idx) >= args[4]
            AmongHighest(idx) ==
                Cardinality({j \in 0..(n - 1) : j # idx /\ score(j) >= score(idx)}) < k
        IN  /\ Len(results) <= k
            /\ \A i \in DOMAIN results : results[i].score >= args[4]
            /\ \A i \in DOMAIN results :
                    \E idx \in 0..(n - 1) :
                        HasMetadata(idx) /\ results[i] = ResultOfRow(store, q, idx)
            /\ \A i, j \in DOMAIN results : i < j => results[i].score >= results[j].score
            /\ \A idx \in 0..(n - 1) :
                    (Eligible(idx) /\ AmongHighest(idx)) =>
                        \E i \in DOMAIN results : results[i] = ResultOfRow(store, q, idx)
            /\ Len(results) =
                    Cardinality({i \in DOMAIN ret[2] : ret[2][i] # -1 /\ Eligible(ret[2][i])})
            /\ n = 0 => results = <<>>

\* A search over two rows whose best row has no metadata returned the other.
C15_Witness ==
    /\ PureReturned("search")
    /\ Len(args[1].index) = 2 /\ args[3] = 2
    /\ RowKey(ret[2][1]) \notin DOMAIN args[1].chunk_metadata
    /\ Len(ret[1]) = 1
    /\ ret[1][1].score < Dot(args[1].index[ret[2][1] + 1], _normalize_vector(args[2]))

\* The record carries the identifier `key` with a non-empty value.
HasIdentifier(paper, key) ==
    key \in DOMAIN paper /\ paper[key] # None /\ paper[key] # <<"">>

SharedIdentifier(paper1, paper2) ==
    \E key \in {"arxiv_id", "doi"} :
        HasIdentifier(paper1, key) /\ HasIdentifier(paper2, key)
            /\ paper1[key] = paper2[key]

WithoutIdentifiers(paper) ==
    [key \in (DOMAIN paper) \ {"arxiv_id", "doi"} |-> paper[key]]

\* C16: two records with the same non-empty arxiv_id or the same non-empty doi
\* are similar whatever their titles and authors; without such an identifier
\* the answer is the one the records get with their identifiers removed.
C16_IdentifierMatch ==
    PureReturned("_are_papers_similar") =>
        /\ SharedIdentifier(args[1], args[2]) => ret[1]
        /\ ~SharedIdentifier(args[1], args[2]) =>
                ret[1] = _are_papers_similar(WithoutIdentifiers(args[1]),
                                             WithoutIdentifiers(args[2]),
                                             DefaultThreshold)

\* Two records with the same arxiv_id, one of them without a title, and
\* different authors were found similar.
C16_Witness ==
    /\ PureReturned("_are_papers_similar") /\ ret[1]
    /\ "title" \notin DOMAIN args[1]
    /\ HasIdentifier(args[1], "arxiv_id")
    /\ AuthorNames(args[1]) \cap AuthorNames(args[2]) = {}

\* 0.8 * jaccard(titles) + 0.2 * jaccard(authors) > 0.85, an empty union
\* counting as a jaccard of zero; multiplied out by 100 * tu * au.
ScoreExceedsThreshold(paper1, paper2) ==
    LET t1 == TitleWords(paper1)
        t2 == TitleWords(paper2)
        a1 == AuthorNames(paper1)
        a2 == AuthorNames(paper2)
        ti == Cardinality(t1 \cap t2)
        tu == IF t1 \cup t2 = {} THEN 1 ELSE Cardinality(t1 \cup t2)
        ai == Cardinality(a1 \cap a2)
        au == IF a1 \cup a2 = {} THEN 1 ELSE Cardinality(a1 \cup a2)
    IN  80 * ti * au + 20 * ai * tu > 85 * tu * au

\* C17: records that share no identifier are similar exactly when the score
\* 0.8 * jaccard(title words) + 0.2 * jaccard(author names) is strictly
\* greater than 0.85.
C17_SimilarIffScoreExceeds ==
    (PureReturned("_are_papers_similar") /\ ~SharedIdentifier(args[1], args[2])) =>
        (ret[1] <=> ScoreExceedsThreshold(args[1], args[2]))

BackfilledKeys == {"citation_count", "pdf_url", "venue", "doi"}

\* The elements of a list.
Elements(list) == {list[i] : i \in DOMAIN list}

\* C18: _merge_paper_info leaves in primary.sources the union of both source
\* lists; takes citation_count, pdf_url, venue and doi from the secondary
\* exactly when the primary's value is absent or falsy and the secondary's is
\* truthy; and leaves every other field of the primary as it was.
C18_MergeFrame ==
    PureReturned("_merge_paper_info") =>
        LET primary == args[1]
            secondary == args[2]
            merged == ret[1]
        IN  /\ Elements(merged.sources) =
                    Elements(GetOr(primary, "sources", <<>>))
                        \cup Elements(GetOr(secondary, "sources", <<>>))
            /\ \A key \in BackfilledKeys :
                    IF ~Truthy(key, Get(primary, key)) /\ Truthy(key, Get(secondary, key))
                    THEN merged[key] = secondary[key]
                    ELSE /\ (key \in DOMAIN merged) = (key \in DOMAIN primary)
                         /\ Get(merged, key) = Get(primary, key)
            /\ DOMAIN merged \subseteq (DOMAIN primary) \cup BackfilledKeys \cup {"sources"}
            /\ \A key \in (DOMAIN primary) \ (BackfilledKeys \cup {"sources"}) :
                    merged[key] = primary[key]

\* A merge that took the pdf_url from the secondary and kept the primary's
\* citation_count although the secondary had another.
C18_Witness ==
    /\ PureReturned("_merge_paper_info")
    /\ args[1].pdf_url = None /\ ret[1].pdf_url = args[2].pdf_url
    /\ args[2].pdf_url # None
    /\ args[1].citation_count = <<7>> /\ args[2].citation_count = <<9>>
    /\ ret[1].citation_count = <<7>>
    /\ "doi" \notin DOMAIN args[1] /\ "doi" \in DOMAIN args[2]
    /\ Truthy("doi", args[2].doi) /\ ret[1].doi = args[2].doi
    /\ Len(ret[1].sources) = 2

\* The ranking key of the claim: (citation_count, year, has_pdf), 0 for a
\* component that is absent, null or empty.
RankKey(paper) ==
    <<IF "citation_count" \in DOMAIN paper /\ paper.citation_count # None
      THEN paper.citation_count[1] ELSE 0,
      IF "year" \in DOMAIN paper /\ paper.year # None THEN paper.year[1] ELSE 0,
      IF "pdf_url" \in DOMAIN paper /\ paper.pdf_url # None /\ paper.pdf_url # <<"">>
      THEN 1 ELSE 0>>

\* a precedes b in descending lexicographic order.
KeyGreater(a, b) ==
    \/ a[1] > b[1]
    \/ a[1] = b[1] /\ a[2] > b[2]
    \/ a[1] = b[1] /\ a[2] = b[2] /\ a[3] > b[3]

\* C19: the ranking is the input in descending lexicographic order of
\* (citation_count, year, has_pdf), papers of equal key in input order, cut to
\* at most max_papers: position i of the output holds the input paper that
\* has exactly i - 1 papers before it in that order.
C19_RankingOrder ==
    PureReturned("sort_and_limit") =>
        LET papers == args[1]
            ranked == ret[1]
            Before(i, j) ==
                \/ KeyGreater(RankKey(papers[i]), RankKey(papers[j]))
                \/ RankKey(papers[i]) = RankKey(papers[j]) /\ i < j
            Rank(j) == Cardinality({i \in DOMAIN papers : Before(i, j)}) + 1
        IN  /\ Len(ranked) = IF Len(papers) < args[2] THEN Len(papers) ELSE args[2]
            /\ \A j \in DOMAIN papers :
                    Rank(j) <= Len(ranked) => ranked[Rank(j)] = papers[j]

\* Three papers of which the last two have the same key, in another order than
\* they were given, were cut to two.
C19_Witness ==
    /\ PureReturned("sort_and_limit")
    /\ Len(args[1]) = 3 /\ args[2] = 2
    /\ RankKey(args[1][2]) = RankKey(args[1][3])
    /\ args[1][2] # args[1][3]
    /\ ret[1] = <<args[1][2], args[1][3]>>

----------------------------------------------------------------------------
(* Part 3: TextProcessor.split_into_chunks, one step per loop iteration.  A
   text is the list of its characters; ChunkSize and Overlap are the
   constructor's chunk_size and overlap, scaled down from 300 and 50. *)

ChunkSize == 6

Overlap == 2

MaxText == 8

MaxChunks == 5

Characters == {"a", " ", "."}

SplitTexts == UNION {[1..n -> Characters] : n \in 0..MaxText}

\* One bound of a Python slice: a negative index counts from the end, and the
\* result is held within 0..n.
SliceIndex(i, n) ==
    IF i < 0 THEN (IF i + n < 0 THEN 0 ELSE i + n)
    ELSE IF i > n THEN n ELSE i

\* text[lo:hi]
Slice(text, lo, hi) ==
    LET l == SliceIndex(lo, Len(text))
        h == SliceIndex(hi, Len(text))
    IN  IF l >= h THEN <<>> ELSE SubSeq(text, l + 1, h)

\* text[lo:]
SliceFrom(text, lo) == Slice(text, lo, Len(text))

\* s.rfind(c): the 0-based position of the last c, or -1.
rfind(s, c) ==
    LET at == {i \in DOMAIN s : s[i] = c}
    IN  IF at = {} THEN -1 ELSE (CHOOSE i \in at : \A j \in at : j <= i) - 1

Max3(a, b, c) ==
    LET ab == IF a >= b THEN a ELSE b
    IN  IF ab >= c THEN ab ELSE c

\* s.strip()
strip(s) ==
    LET solid == {i \in DOMAIN s : s[i] # " "}
    IN  IF solid = {}
        THEN <<>>
        ELSE SubSeq(s, CHOOSE i \in solid : \A j \in solid : i <= j,
                       CHOOSE i \in solid : \A j \in solid : j <= i)

\* [chunk for chunk in chunks if chunk.strip()]
RemoveEmptyChunks(list) == SelectSeq(list, LAMBDA chunk : strip(chunk) # <<>>)

\* chunk_text of the iteration and the break points found in it.
chunk_text == Slice(split_text, split_start, split_start + ChunkSize)

last_sentence_end ==
    Max3(rfind(chunk_text, "."), rfind(chunk_text, "!"), rfind(chunk_text, "?"))

last_space == rfind(chunk_text, " ")

\* The loop is at its head with the while condition true and the chunk not
\* the last one.
InLoop ==
    /\ split_pc = "loop"
    /\ split_start < Len(split_text)
    /\ split_start + ChunkSize < Len(split_text)
    /\ Len(split_chunks) < MaxChunks

SplitInit ==
    /\ split_text \in SplitTexts
    /\ split_start = 0
    /\ split_chunks = <<>>
    /\ split_pc = "called"
    /\ split_windows = <<>>

\* if len(text) <= self.chunk_size: return [text]
ReturnWholeText ==
    /\ split_pc = "called"
    /\ Len(split_text) <= ChunkSize
    /\ split_chunks' = <<split_text>>
    /\ split_windows' = <<<<0, Len(split_text)>>>>
    /\ split_pc' = "done"
    /\ UNCHANGED <<split_text, split_start>>

\* chunks = []; start = 0
EnterLoop ==
    /\ split_pc = "called"
    /\ Len(split_text) > ChunkSize
    /\ split_pc' = "loop"
    /\ UNCHANGED <<split_text, split_start, split_chunks, split_windows>>

\* end >= len(text): the last chunk is appended, the loop left, the empty
\* chunks removed and the list returned.
LastChunk ==
    /\ split_pc = "loop"
    /\ split_start < Len(split_text)
    /\ split_start + ChunkSize >= Len(split_text)
    /\ split_chunks' =
            RemoveEmptyChunks(Append(split_chunks, SliceFrom(split_text, split_start)))
    /\ split_windows' = Append(split_windows, <<split_start, Len(split_text)>>)
    /\ split_pc' = "done"
    /\ UNCHANGED <<split_text, split_start>>

\* A sentence ends in the second half of the chunk.
SentenceBreak ==
    /\ InLoop
    /\ last_sentence_end > ChunkSize \div 2
    /\ LET end == split_start + last_sentence_end + 1
       IN  /\ split_chunks' =
                    Append(split_chunks, strip(Slice(split_text, split_start, end)))
           /\ split_windows' = Append(split_windows, <<split_start, end>>)
           /\ split_start' = end - Overlap
    /\ UNCHANGED <<split_text, split_pc>>

\* No such sentence end, and a space after the first character of the chunk.
WordBreak ==
    /\ InLoop
    /\ ~(last_sentence_end > ChunkSize \div 2)
    /\ last_space > 0
    /\ LET end == split_start + last_space
       IN  /\ split_chunks' =
                    Append(split_chunks, strip(Slice(split_text, split_start, end)))
           /\ split_windows' = Append(split_windows, <<split_start, end>>)
           /\ split_start' = end - Overlap
    /\ UNCHANGED <<split_text, split_pc>>

\* Neither: the chunk is cut at chunk_size.
ForcedBreak ==
    /\ InLoop
    /\ ~(last_sentence_end > ChunkSize \div 2)
    /\ ~(last_space > 0)
    /\ split_chunks' = Append(split_chunks, chunk_text)
    /\ split_windows' = Append(split_windows, <<split_start, split_start + ChunkSize>>)
    /\ split_start' = split_start + ChunkSize - Overlap
    /\ UNCHANGED <<split_text, split_pc>>

SplitOnly == UNCHANGED <<storeVars, pureVars, researchVars>>

NextSplit ==
    \/ ReturnWholeText /\ SplitOnly
    \/ EnterLoop /\ SplitOnly
    \/ LastChunk /\ SplitOnly
    \/ SentenceBreak /\ SplitOnly
    \/ WordBreak /\ SplitOnly
    \/ ForcedBreak /\ SplitOnly

InitSplit == StoreInit /\ NoPureCall /\ NoResearch /\ SplitInit

SpecSplit == InitSplit /\ [][NextSplit]_vars

\* C20: for a non-empty text split_into_chunks returns at least one chunk, no
\* chunk that is empty or only whitespace, no chunk longer than chunk_size,
\* and the whole text as the single chunk when it is not longer than
\* chunk_size.
C20_ChunksWellFormed ==
    (split_pc = "done" /\ split_text # <<>>) =>
        /\ Len(split_chunks) >= 1
        /\ \A i \in DOMAIN split_chunks :
                /\ strip(split_chunks[i]) # <<>>
                /\ Len(split_chunks[i]) <= ChunkSize
        /\ Len(split_text) <= ChunkSize => split_chunks = <<split_text>>

----------------------------------------------------------------------------
(* Part 4: ResearcherAgent.research_async (src/agents/researcher.py) on its
   asyncio event loop.  research_async and the two search tasks that
   asyncio.gather makes of _search_arxiv and _search_semantic_scholar run on
   one thread; a step of one of them lasts until its next await.
   _search_arxiv contains no await: it calls the synchronous
   arxiv_tool.search_papers, and while that call waits for the arXiv server
   nothing else runs on the loop.  *)

Providers == {"arxiv", "semantic_scholar"}

max_papers == 2     \* self.max_papers, scaled down from 5

RecursionLimit == 2 \* nested _make_request calls the interpreter allows

\* What arxiv_tool.search_papers returns for two results of the arXiv API.
ArxivPaperA ==
    [title |-> <<"Deep", "Nets">>, authors |-> <<"Ann">>,
     pdf_url |-> <<"http://a/1">>, arxiv_id |-> <<"2301.1v1">>]

ArxivPaperB ==
    [title |-> <<"graph", "search">>, authors |-> <<"Ed">>,
     pdf_url |-> <<"http://a/2">>, arxiv_id |-> <<"2301.2v1">>]

\* Two SemanticScholarPaper objects as _convert_to_paper builds them: the
\* first is the paper of ArxivPaperA, the second another one.
ScholarPaperA ==
    [title |-> <<"deep", "nets">>, authors |-> <<"ann">>, venue |-> <<"NeurIPS">>,
     year |-> <<2023>>, pdf_url |-> None, arxiv_id |-> <<"2301.1">>,
     doi |-> <<"10.1/a">>, citation_count |-> <<9>>]

ScholarPaperC ==
    [title |-> <<"fast", "index">>, authors |-> <<"Cy">>,
     venue |-> <<"Unknown Venue">>, year |-> <<0>>, pdf_url |-> <<"http://s/3">>,
     arxiv_id |-> None, doi |-> None, citation_count |-> <<0>>]

\* What a provider's server does with the request: it fails it (an exception,
\* for Semantic Scholar also a status other than 200 and 429, or no answer
\* within the 30 s of the session's ClientTimeout), or answers these papers.
Answers(lists) ==
    {[raises |-> TRUE, papers |-> <<>>]} \cup {[raises |-> FALSE, papers |-> l] : l \in lists}

ArxivAnswers ==
    Answers({<<>>, <<ArxivPaperA>>, <<ArxivPaperB>>, <<ArxivPaperA, ArxivPaperB>>})

ScholarAnswers ==
    Answers({<<>>, <<ScholarPaperA>>, <<ScholarPaperC>>, <<ScholarPaperC, ScholarPaperA>>})

\* The unified record _search_arxiv makes of an arXiv paper.
ArxivUnified(paper) ==
    DictSet(DictSet(DictSet(paper, "sources", <<"arxiv">>),
                    "citation_count", None),
            "venue", <<"arXiv preprint">>)

\* The unified record _search_semantic_scholar makes of a SemanticScholarPaper.
ScholarUnified(paper) == DictSet(paper, "sources", <<"semantic_scholar">>)

\* Faulty variant of SearchArxivResult: the exception leaves the task.
SearchArxivPropagates(answer) ==
    IF answer.raises
    THEN [exception |-> TRUE, papers |-> <<>>, source_name |-> "arxiv"]
    ELSE [exception |-> FALSE,
          papers |-> [i \in DOMAIN answer.papers |-> ArxivUnified(answer.papers[i])],
          source_name |-> "arxiv"]

\* What the task of _search_arxiv ends with: (unified_papers, 'arxiv'), and
\* ([], 'arxiv') when the search raised.
SearchArxivResult(answer) ==
    [exception |-> FALSE,
     papers |-> IF answer.raises
                THEN <<>>
                ELSE [i \in DOMAIN answer.papers |-> ArxivUnified(answer.papers[i])],
     source_name |-> "arxiv"]

\* What the task of _search_semantic_scholar ends with when _make_request
\* returned the server's data, or {'data': []} after a failure.
SearchScholarResult(answer) ==
    [exception |-> FALSE,
     papers |-> IF answer.raises
                THEN <<>>
                ELSE [i \in DOMAIN answer.papers |-> ScholarUnified(answer.papers[i])],
     source_name |-> "semantic_scholar"]

\* Faulty variant of Gathered: the results in the opposite order.
GatheredReversed(results) ==
    SelectSeq(<<results.semantic_scholar, results.arxiv>>, LAMBDA r : r # None)

\* The list asyncio.gather returns: the results of the tasks in the order in
\* which research_async appended them to search_tasks.
Gathered(results) ==
    SelectSeq(<<results.arxiv, results.semantic_scholar>>, LAMBDA r : r # None)

\* The loop over search_results: all_papers and source_stats.
RECURSIVE ExtendAll(_, _, _)
ExtendAll(gathered, i, papers) ==
    IF i > Len(gathered)
    THEN papers
    ELSE IF gathered[i][1].exception
    THEN ExtendAll(gathered, i + 1, papers)
    ELSE ExtendAll(gathered, i + 1, papers \o gathered[i][1].papers)

all_papers == ExtendAll(Gathered(search_results), 1, <<>>)

source_stats ==
    LET gathered == Gathered(search_results)
        counted == {i \in DOMAIN gathered : ~gathered[i][1].exception}
    IN  [name \in {gathered[i][1].source_name : i \in counted} |->
            Len((CHOOSE r \in {gathered[i][1] : i \in counted} : r.source_name = name).papers)]

\* Step 3: deduplicate if several sources were asked for.
unique_papers ==
    IF Cardinality(search_sources) > 1
    THEN _deduplicate_papers(all_papers)
    ELSE all_papers

\* What an evaluation comes to: a relevance score the answer of the model was
\* parsed to, or the score 5 the except branch gives.
Evaluations ==
    {[relevance_score |-> 3, error |-> FALSE],
     [relevance_score |-> 8, error |-> FALSE],
     [relevance_score |-> 5, error |-> TRUE]}

\* A sort by relevance_score that is not stable.
RECURSIVE InsertByRelevanceUnstable(_, _, _)
InsertByRelevanceUnstable(sorted, paper, i) ==
    IF i > Len(sorted)
    THEN Append(sorted, paper)
    ELSE IF sorted[i].evaluation.relevance_score <= paper.evaluation.relevance_score
    THEN SubSeq(sorted, 1, i - 1) \o <<paper>> \o SubSeq(sorted, i, Len(sorted))
    ELSE InsertByRelevanceUnstable(sorted, paper, i + 1)

\* evaluated_papers.sort(key=relevance_score, reverse=True): stable.
RECURSIVE InsertByRelevance(_, _, _)
InsertByRelevance(sorted, paper, i) ==
    IF i > Len(sorted)
    THEN Append(sorted, paper)
    ELSE IF sorted[i].evaluation.relevance_score < paper.evaluation.relevance_score
    THEN SubSeq(sorted, 1, i - 1) \o <<paper>> \o SubSeq(sorted, i, Len(sorted))
    ELSE InsertByRelevance(sorted, paper, i + 1)

RECURSIVE SortByRelevance(_, _, _)
SortByRelevance(papers, i, sorted) ==
    IF i > Len(papers)
    THEN sorted
    ELSE SortByRelevance(papers, i + 1, InsertByRelevance(sorted, papers[i], 1))

\* The search task of a provider is inside its search.
InFlight(name) == task[name] \in {"blocked", "requesting", "sleeping"}

\* The event loop can run a step: no task holds it inside a blocking call.
LoopFree == task.arxiv # "blocked"

ResearchInit ==
    /\ research_pc = "called"
    /\ enabled_sources \in (SUBSET Providers) \ {{}}
    /\ search_sources \in (SUBSET Providers) \ {{}}
    /\ provider \in [arxiv : ArxivAnswers, semantic_scholar : ScholarAnswers]
    /\ task = [name \in Providers |-> "none"]
    /\ depth = 0
    /\ search_results = [name \in Providers |-> None]
    /\ final_papers = <<>>
    /\ evaluated_papers = <<>>
    /\ research_result = <<>>

\* research_async up to `await asyncio.gather(...)`: a task for each source
\* asked for that has its tool, or the return of no_sources_available.
StartSearches ==
    /\ research_pc = "called"
    /\ LET search_tasks == search_sources \cap enabled_sources
       IN  IF search_tasks = {}
           THEN /\ research_result' = [status |-> "no_sources_available",
                                       papers |-> <<>>, papers_found |-> 0]
                /\ research_pc' = "closing"
                /\ UNCHANGED task
           ELSE /\ task' = [name \in Providers |->
                                IF name \in search_tasks THEN "scheduled" ELSE "none"]
                /\ research_pc' = "gather"
                /\ UNCHANGED research_result
    /\ UNCHANGED <<enabled_sources, search_sources, provider, depth, search_results,
                   final_papers, evaluated_papers>>

\* The task of _search_arxiv runs: it enters arxiv_tool.search_papers.
ArxivSearchStarts ==
    /\ task.arxiv = "scheduled"
    /\ task' = [task EXCEPT !.arxiv = "blocked"]
    /\ UNCHANGED <<research_pc, enabled_sources, search_sources, provider, depth,
                   search_results, final_papers, evaluated_papers, research_result>>

\* The arXiv server answers or the request fails: search_papers returns (or
\* raises) and the task ends.
ArxivSearchReturns ==
    /\ task.arxiv = "blocked"
    /\ task' = [task EXCEPT !.arxiv = "done"]
    /\ search_results' =
            [search_results EXCEPT !.arxiv = <<SearchArxivResult(provider.arxiv)>>]
    /\ UNCHANGED <<research_pc, enabled_sources, search_sources, provider, depth,
                   final_papers, evaluated_papers, research_result>>

\* The task of _search_semantic_scholar runs, after the task of _search_arxiv
\* if there is one: _make_request sends its request and awaits the response.
ScholarSearchStarts ==
    /\ task.semantic_scholar = "scheduled"
    /\ task.arxiv \in {"none", "done"}
    /\ task' = [task EXCEPT !.semantic_scholar = "requesting"]
    /\ UNCHANGED <<research_pc, enabled_sources, search_sources, provider, depth,
                   search_results, final_papers, evaluated_papers, research_result>>

\* Status 200, another status than 429, an exception or the session's
\* timeout: _make_request returns, and so does every _make_request around it.
ScholarRequestEnds ==
    /\ task.semantic_scholar = "requesting"
    /\ LoopFree
    /\ task' = [task EXCEPT !.semantic_scholar = "done"]
    /\ search_results' =
            [search_results EXCEPT
                !.semantic_scholar = <<SearchScholarResult(provider.semantic_scholar)>>]
    /\ UNCHANGED <<research_pc, enabled_sources, search_sources, provider, depth,
                   final_papers, evaluated_papers, research_result>>

\* Status 429: await asyncio.sleep(5).
ScholarRateLimited ==
    /\ task.semantic_scholar = "requesting"
    /\ LoopFree
    /\ task' = [task EXCEPT !.semantic_scholar = "sleeping"]
    /\ UNCHANGED <<research_pc, enabled_sources, search_sources, provider, depth,
                   search_results, final_papers, evaluated_papers, research_result>>

\* After the sleep: return await self._make_request(endpoint, params).
ScholarRetries ==
    /\ task.semantic_scholar = "sleeping"
    /\ LoopFree
    /\ depth < RecursionLimit
    /\ depth' = depth + 1
    /\ task' = [task EXCEPT !.semantic_scholar = "requesting"]
    /\ UNCHANGED <<research_pc, enabled_sources, search_sources, provider,
                   search_results, final_papers, evaluated_papers, research_result>>

\* The nested call exceeds the interpreter's recursion limit: the
\* RecursionError is caught by `except Exception` and {'data': []} returned.
ScholarRecursionError ==
    /\ task.semantic_scholar = "sleeping"
    /\ LoopFree
    /\ depth = RecursionLimit
    /\ task' = [task EXCEPT !.semantic_scholar = "done"]
    /\ search_results' =
            [search_results EXCEPT
                !.semantic_scholar =
                    <<SearchScholarResult([raises |-> TRUE, papers |-> <<>>])>>]
    /\ UNCHANGED <<research_pc, enabled_sources, search_sources, provider, depth,
                   final_papers, evaluated_papers, research_result>>

\* Every task has ended: gather returns, and research_async runs on to its
\* next await: steps 2 to 4, or the return of no_papers_found.
GatherReturns ==
    /\ research_pc = "gather"
    /\ \A name \in Providers : task[name] \in {"none", "done"}
    /\ IF all_papers = <<>>
       THEN /\ research_result' = [status |-> "no_papers_found", papers |-> <<>>,
                                   papers_found |-> 0,
                                   source_breakdown |-> source_stats]
            /\ research_pc' = "closing"
            /\ UNCHANGED final_papers
       ELSE /\ final_papers' = SortAndLimit(unique_papers, max_papers)
            /\ research_pc' = "evaluate"
            /\ UNCHANGED research_result
    /\ UNCHANGED <<enabled_sources, search_sources, provider, task, depth,
                   search_results, evaluated_papers>>

\* _evaluate_paper_async returns or raises for the next paper; after the last
\* paper steps 6 and 7 build the result.
EvaluatePaper ==
    /\ research_pc = "evaluate"
    /\ \E evaluation \in Evaluations :
        LET paper == final_papers[Len(evaluated_papers) + 1]
            evaluated == Append(evaluated_papers, DictSet(paper, "evaluation", evaluation))
            sorted == SortByRelevance(evaluated, 1, <<>>)
        IN  /\ evaluated_papers' = evaluated
            /\ IF Len(evaluated) = Len(final_papers)
               THEN /\ research_result' =
                            [status |-> "success",
                             papers_found |-> Len(sorted),
                             papers |-> sorted,
                             source_breakdown |-> source_stats,
                             total_before_dedup |-> Len(all_papers),
                             duplicates_removed |-> Len(all_papers) - Len(unique_papers)]
                    /\ research_pc' = "closing"
               ELSE UNCHANGED <<research_pc, research_result>>
    /\ UNCHANGED <<enabled_sources, search_sources, provider, task, depth,
                   search_results, final_papers>>

\* finally: the session of the Semantic Scholar tool is closed, and
\* research_async returns.
CloseAndReturn ==
    /\ research_pc = "closing"
    /\ research_pc' = "done"
    /\ UNCHANGED <<enabled_sources, search_sources, provider, task, depth,
                   search_results, final_papers, evaluated_papers, research_result>>

ResearchOnly == UNCHANGED <<storeVars, pureVars, splitVars>>

NextResearch ==
    \/ StartSearches /\ ResearchOnly
    \/ ArxivSearchStarts /\ ResearchOnly
    \/ ArxivSearchReturns /\ ResearchOnly
    \/ ScholarSearchStarts /\ ResearchOnly
    \/ ScholarRequestEnds /\ ResearchOnly
    \/ ScholarRateLimited /\ ResearchOnly
    \/ ScholarRetries /\ ResearchOnly
    \/ ScholarRecursionError /\ ResearchOnly
    \/ GatherReturns /\ ResearchOnly
    \/ EvaluatePaper /\ ResearchOnly
    \/ CloseAndReturn /\ ResearchOnly

InitResearch == StoreInit /\ NoPureCall /\ NoSplit /\ ResearchInit

SpecResearch == InitResearch /\ [][NextResearch]_vars

\* The steps the event loop takes by itself: every step but the answer of the
\* arXiv server, for which search_papers waits without a timeout.  A request
\* to Semantic Scholar ends by itself, through the ClientTimeout of its
\* session; an evaluation is taken to end.
LoopStep ==
    \/ StartSearches
    \/ ArxivSearchStarts
    \/ ScholarSearchStarts
    \/ ScholarRequestEnds
    \/ ScholarRateLimited
    \/ ScholarRetries
    \/ ScholarRecursionError
    \/ GatherReturns
    \/ EvaluatePaper
    \/ CloseAndReturn

SpecResearchFair == SpecResearch /\ WF_vars(LoopStep /\ ResearchOnly)

----------------------------------------------------------------------------
(* Claims about research_async *)

\* Both sources were asked for and both have their tool.
BothSearched == search_sources \cap enabled_sources = Providers

OtherProvider(name) == CHOOSE other \in Providers : other # name

\* C11: when one provider's search fails and the other's returns papers,
\* research_async returns status 'success' with the papers of the other,
\* source_breakdown counts zero for the failed provider and the papers of the
\* other, and the other's search ran to its end.
C11_ProviderIsolation ==
    (research_pc = "done" /\ BothSearched) =>
        \A failed \in Providers :
            LET other == OtherProvider(failed)
            IN  (/\ provider[failed].raises
                 /\ search_results[other] # None
                 /\ search_results[other][1].papers # <<>>) =>
                    /\ research_result.status = "success"
                    /\ failed \in DOMAIN research_result.source_breakdown
                    /\ research_result.source_breakdown[failed] = 0
                    /\ research_result.source_breakdown[other] =
                            Len(provider[other].papers)
                    /\ search_results[other][1].papers =
                            (IF other = "arxiv" THEN SearchArxivResult(provider[other])
                             ELSE SearchScholarResult(provider[other])).papers
                    /\ research_result.papers_found =
                            (IF Len(provider[other].papers) < max_papers
                             THEN Len(provider[other].papers) ELSE max_papers)
                    /\ \A i \in DOMAIN research_result.papers :
                            /\ research_result.papers[i].sources = <<other>>
                            /\ \E j \in DOMAIN provider[other].papers :
                                    research_result.papers[i].title =
                                        provider[other].papers[j].title

\* research_async returned the two papers of Semantic Scholar although the
\* arXiv search had failed.
C11_Witness ==
    /\ research_pc = "done" /\ BothSearched
    /\ provider.arxiv.raises
    /\ research_result.status = "success"
    /\ research_result.papers_found = 2
    /\ research_result.source_breakdown.arxiv = 0
    /\ research_result.source_breakdown.semantic_scholar = 2

\* C12: with both providers searched, the request to Semantic Scholar is
\* started while the arXiv search has not yet completed, and the merging of
\* the results starts only when every search has completed.
C12_ProvidersConcurrent ==
    [][/\ (/\ task.arxiv # "none"
           /\ task.semantic_scholar = "scheduled"
           /\ task'.semantic_scholar = "requesting") => task.arxiv # "done"
       /\ (research_pc = "gather" /\ research_pc' # "gather") =>
                \A name \in Providers : task[name] \in {"none", "done"}]_vars

\* C13: research_async eventually returns, whatever the providers do.
C13_ResearchReturns == <>(research_pc = "done")

----------------------------------------------------------------------------
(* Further claims about split_into_chunks *)

\* The positions of the text that text[start:end] takes.
WindowPositions(window) ==
    LET l == SliceIndex(window[1], Len(split_text))
        h == SliceIndex(window[2], Len(split_text))
    IN  l..(h - 1)

\* C21: for a text longer than chunk_size every character position lies in
\* the window of a chunk, and every window after the first starts exactly
\* `overlap` characters before the end of the window before it, at a position
\* that is not negative.  Whitespace may be stripped or cleaned away, so the
\* positions looked at here are those of the other characters; a chunk that
\* is removed as empty holds none of them.
C21_WindowsCoverText ==
    (split_pc = "done" /\ Len(split_text) > ChunkSize) =>
        /\ \A position \in 0..(Len(split_text) - 1) :
                split_text[position + 1] # " " =>
                    \E i \in DOMAIN split_windows :
                        position \in WindowPositions(split_windows[i])
        /\ \A i \in DOMAIN split_windows :
                i > 1 => /\ split_windows[i][1] = split_windows[i - 1][2] - Overlap
                         /\ split_windows[i][1] >= 0

\* C30: the window start strictly increases on every iteration of the loop
\* of split_into_chunks that goes on to another iteration.
C30_StartIncreases ==
    [][(split_pc = "loop" /\ split_pc' = "loop" /\ split_chunks' # split_chunks) =>
            split_start' > split_start]_vars

----------------------------------------------------------------------------
(* Further claims about the paper records *)

\* C27: no two records of the list _deduplicate_papers returns are similar to
\* each other, as they are returned, and every record of the input is in the
\* output (its title is that of an output record) or similar to a record of
\* the output it was merged into.
C27_DedupOutputDuplicateFree ==
    PureReturned("_deduplicate_papers") =>
        LET papers == args[1]
            unique == ret[1]
        IN  /\ \A i, j \in DOMAIN unique :
                    i # j => ~_are_papers_similar(unique[i], unique[j], DefaultThreshold)
            /\ \A i \in DOMAIN papers :
                    \E j \in DOMAIN unique :
                        \/ unique[j].title = papers[i].title
                        \/ _are_papers_similar(papers[i], unique[j], DefaultThreshold)

\* The key of the final ranking: relevance_score before the ranking key.
FinalKey(paper) == <<paper.evaluation.relevance_score>> \o RankKey(paper)

FinalKeyGreater(a, b) ==
    \/ a[1] > b[1]
    \/ a[1] = b[1] /\ KeyGreater(Tail(a), Tail(b))

\* C28: the papers research_async returns are in descending lexicographic
\* order of (relevance_score, citation_count, year, has_pdf); a paper whose
\* evaluation raised is among them with relevance_score 5; and there are
\* min(number of unique papers, max_papers) of them.
C28_FinalRanking ==
    (research_result # <<>> /\ research_result.status = "success") =>
        LET papers == research_result.papers
        IN  /\ \A i, j \in DOMAIN papers :
                    i < j => ~FinalKeyGreater(FinalKey(papers[j]), FinalKey(papers[i]))
            /\ \A i \in DOMAIN papers :
                    papers[i].evaluation.error => papers[i].evaluation.relevance_score = 5
            /\ \A i \in DOMAIN evaluated_papers :
                    \E j \in DOMAIN papers : papers[j] = evaluated_papers[i]
            /\ Len(papers) = IF Len(unique_papers) < max_papers
                             THEN Len(unique_papers) ELSE max_papers

C28_Witness ==
    /\ research_pc = "done"
    /\ research_result.status = "success"
    /\ Len(research_result.papers) = max_papers
    /\ Len(unique_papers) > max_papers
    /\ \E i \in DOMAIN research_result.papers :
            LET papers == research_result.papers
            IN  /\ i > 1
                /\ papers[i].evaluation.error
                /\ papers[i].evaluation.relevance_score = papers[i - 1].evaluation.relevance_score
                /\ KeyGreater(RankKey(papers[i - 1]), RankKey(papers[i]))

----------------------------------------------------------------------------
(* Further claims about the store *)

\* The step is an add_chunks call of process p.
AddStep(p) == calls' = calls + 1 /\ call'.op = "add" /\ call'.p = p

\* C29: add_chunks leaves every stored vector, metadata entry and id-map entry
\* as it was, and the rows it appends have the consecutive ids from the
\* former ntotal on, none of which an existing metadata entry or id-map entry
\* uses.
C29_AppendOnly ==
    [][\A p \in Procs :
        AddStep(p) =>
            /\ Len(index'[p]) >= Len(index[p])
            /\ SubSeq(index'[p], 1, Len(index[p])) = index[p]
            /\ \A k \in DOMAIN chunk_metadata[p] :
                    k \in DOMAIN chunk_metadata'[p]
                        /\ chunk_metadata'[p][k] = chunk_metadata[p][k]
            /\ \A c \in DOMAIN chunk_id_to_index[p] :
                    c \in DOMAIN chunk_id_to_index'[p]
                        /\ chunk_id_to_index'[p][c] = chunk_id_to_index[p][c]
            /\ \A i \in Len(index[p])..(Len(index'[p]) - 1) :
                    /\ RowKey(i) \notin DOMAIN chunk_metadata[p]
                    /\ \A c \in DOMAIN chunk_id_to_index[p] : chunk_id_to_index[p][c] # i
      ]_vars

\* C25: every vector the store holds after the chunks of the papers were
\* added has length 1 and is not all-zero, also when encode_batch failed, and
\* its inner product with the normalized embedding of its chunk, the score of
\* a query identical to that embedding, is 1.
C25_StoredVectorsUnit ==
    PureReturned("add_papers_to_knowledge_base") =>
        LET store == ret[1].store
        IN  \A i \in DOMAIN store.index :
                /\ Norm(store.index[i]) = 1
                /\ store.index[i] # <<0, 0>>
                /\ LET chunk_id == store.chunk_metadata[RowKey(i - 1)].chunk_id
                   IN  Dot(store.index[i],
                           _normalize_vector(ret[1].embeddings[chunk_id])) = 1

----------------------------------------------------------------------------
(* Claims about the embedding service and the retrieval *)

\* C24: on a service that has not loaded its model, get_embedding_dimension
\* returns the default 384 and leaves the service not loaded; and encode_text
\* on an empty or blank text returns the all-zero vector of that dimension
\* without raising and without loading the model.
C24_NoLoadOnDefaultPath ==
    /\ (PureReturned("get_embedding_dimension") /\ args[1] = NotLoaded) =>
            /\ ~ret[1].raised
            /\ ret[1].value = DefaultDimension
            /\ ret[1].service = NotLoaded
    /\ (PureReturned("encode_text") /\ args[1] = NotLoaded /\ IsBlank(args[3])) =>
            /\ ~ret[1].raised
            /\ ret[1].value = Zeros(DefaultDimension)
            /\ ret[1].service = NotLoaded

\* C26: a retrieval that met an exception of the embedding or of the index
\* search does not come back as an empty list, and the answer built on it
\* has the status "error", not "no_context".
C26_FailureNotEmptyResult ==
    (PureReturned("answer_question") /\ ret[1].failed) =>
        /\ ret[1].retrieved_chunks # <<>>
        /\ ret[1].status = "error"

----------------------------------------------------------------------------
(* Claims about the processing of papers into chunks *)

\* C22: split_into_chunks returns the empty list for the empty text.
C22_EmptyTextNoChunks ==
    (split_pc = "done" /\ Len(split_text) = 0) => Len(split_chunks) = 0

\* The chunk_ids of a list of chunks.
ChunkIdsOf(chunks) == {chunks[i].chunk_id : i \in DOMAIN chunks}

\* C23: the chunks batch_process_papers makes of papers that differ from one
\* another have chunk_ids that differ from one another, and the chunk_ids the
\* same papers get under another topic context are none of them.
C23_ChunkIdsUnique ==
    (PureReturned("batch_process_papers")
        /\ \A i, j \in DOMAIN args[1] : i # j => args[1][i] # args[1][j]) =>
        /\ \A i, j \in DOMAIN ret[1] :
                i # j => ret[1][i].chunk_id # ret[1][j].chunk_id
        /\ \A topic_context \in TopicContexts \ {args[2]} :
                ChunkIdsOf(batch_process_papers(args[1], topic_context))
                    \cap ChunkIdsOf(ret[1]) = {}

====
